---------------------------- MODULE Spec2Model ----------------------------
(***************************************************************************)
(* A model of the RoSeal/RBDb build pipeline: the per-target build         *)
(* orchestrator (scripts/build.ts), the multi-target driver                *)
(* (scripts/buildRedistribution.ts), the dev server (scripts/dev.ts), the  *)
(* manifest transformer, the locale extractor and the DNR rule generator   *)
(* (scripts/build/utils.ts, scripts/build.ts).                             *)
(*                                                                         *)
(* Each entry point of the repository is one "program"; the variable       *)
(* program says which one a behaviour runs, and every action is guarded by *)
(* it.  The variables of the other programs keep their idle values.        *)
(*                                                                         *)
(* JavaScript values are represented as follows:                           *)
(*   - a string on which the code does character work (endsWith,           *)
(*     replaceAll, concatenation) is a sequence of one-character strings;  *)
(*   - a value that may be undefined is a sequence of length 0 (undefined) *)
(*     or 1 (the value);                                                   *)
(*   - an object whose key order matters is a sequence of entries.         *)
(***************************************************************************)
EXTENDS Integers, Sequences, FiniteSets, TLC

VARIABLES
    program,      \* the entry point this behaviour runs
    \* ---- build orchestrator (scripts/build.ts, build) ----
    throws,       \* input: for each target, the steps that reject when run
    buildPc,      \* per target: position of build()
    stepState,    \* per target, per step: notLaunched/running/fulfilled/rejected
    converted,    \* targets whose output was wrapped by convertToSafariExtension
    \* ---- multi-target driver (scripts/buildRedistribution.ts) ----
    uploadToAmo,  \* input: import.meta.env.UPLOAD_TO_AMO === "true"
    taskPc,       \* per supported target: position of its async task
    archives,     \* targets whose builds-dist/<folder>.zip exists
    xpis,         \* targets whose builds-dist/<folder>.xpi exists
    outDirs,      \* targets whose output directory exists
    written,      \* the paths the build steps wrote, each with the target
                  \* whose build() wrote it
    driverPc,     \* running / failing / resolved / exited
    \* ---- dev server (scripts/dev.ts) ----
    devPc,        \* initialBuild / watching
    connections,  \* the Set of open websockets
    rebuild,      \* per change event, in order: the watcher that fired and
                  \* the state of the promise handed to handleChange
    received,     \* per client: the notifications delivered to it, in order
    sockets,      \* per client: whether its websocket is open, and what had
                  \* happened when it was last opened
    \* ---- manifest transformer (scripts/build/utils.ts, transformManifest) ----
    mfArgs,       \* input: the TransformManifestArgs of the call
    mfOut,        \* the returned manifest, once the call has returned
    \* ---- DNR rule generator (scripts/build.ts, writeDNRRules) ----
    STATIC_RULES_START_ID,  \* the constant imported from src/ts/constants/dnrRules.ts
    dnrArgs,      \* input: the WriteDNRRuleProps of the call
    dnrOut,       \* the rule array written to dnr_rules.json, once written
    \* ---- locale extractor (scripts/build/utils.ts, handleI18NNamespace) ----
    i18nArgs,     \* input: the locale tree and the requested profiles
    i18nOut,      \* the extracted messages, once the call has returned
    \* ---- locale export (scripts/build/utils.ts, getI18nExport) ----
    exArgs,       \* input: the locale files, the order walk() yields them in,
                  \* the entrypoints and includeContext
    exOut,        \* the returned { contents, supportedLocales }, once returned
    \* ---- build-time parameters (scripts/build/utils.ts, getBuildTimeParams
    \*      and the source-snapshot script) ----
    cacheFile,    \* cachedBuildTime.json: absent, or its parsed content
    calls,        \* the calls of getBuildTimeParams so far, in order
    snap,         \* the source-snapshot run: its position and the parameters it holds
    \* ---- dev-server probe (scripts/build/utils.ts, getDevServersAvailable) ----
    prArgs,       \* input: isDev, isWsAccessible and how each probe would settle
    prOut,        \* the probes sent and how the returned promise settled
    \* ---- ratings store (services/rbdb-backend/src/index.js, RatingsStore) ----
    stData,       \* this.data: the ratings held in memory
    stFile,       \* the ratings written to the data file by the last persist()
    stQueue,      \* the promises writeQueue has been, in order
    stOps,        \* the upsert and remove calls so far, in order
    \* ---- background script (src/background.ts, onMessage listener) ----
    bgMsg,        \* input: the message and how its fetch would go
    bgPc,         \* position of the listener and of its async function
    bgOut         \* what the listener returned and the sendResponse calls made

buildVars  == <<throws, buildPc, stepState, converted>>
driverVars == <<uploadToAmo, taskPc, archives, xpis, outDirs, written, driverPc>>
devVars    == <<devPc, connections, rebuild, received, sockets>>
mfVars     == <<mfArgs, mfOut>>
dnrVars    == <<STATIC_RULES_START_ID, dnrArgs, dnrOut>>
i18nVars   == <<i18nArgs, i18nOut>>
exVars     == <<exArgs, exOut>>
cacheVars  == <<cacheFile, calls, snap>>
probeVars  == <<prArgs, prOut>>
storeVars  == <<stData, stFile, stQueue, stOps>>
bgVars     == <<bgMsg, bgPc, bgOut>>
vars == <<program, buildVars, driverVars, devVars, mfVars, dnrVars, i18nVars,
          exVars, cacheVars,
               probeVars, storeVars, bgVars>>

\* What the actions of one program leave alone: the variables of the others.
notBuild  == <<program, driverVars, devVars, mfVars, dnrVars, i18nVars,
               exVars, cacheVars,
               probeVars, storeVars, bgVars>>
notDriver == <<program, devVars, mfVars, dnrVars, i18nVars,
               exVars, cacheVars,
               probeVars, storeVars, bgVars>>
notDev    == <<program, buildVars, driverVars, mfVars, dnrVars, i18nVars,
               exVars, cacheVars,
               probeVars, storeVars, bgVars>>
notMf     == <<program, buildVars, driverVars, devVars, dnrVars, i18nVars,
               exVars, cacheVars,
               probeVars, storeVars, bgVars>>
notDnr    == <<program, buildVars, driverVars, devVars, mfVars, i18nVars,
               exVars, cacheVars,
               probeVars, storeVars, bgVars>>
notI18n   == <<program, buildVars, driverVars, devVars, mfVars, dnrVars,
               exVars, cacheVars,
               probeVars, storeVars, bgVars>>
notEx     == <<program, buildVars, driverVars, devVars, mfVars, dnrVars, i18nVars,
               cacheVars,
               probeVars, storeVars, bgVars>>
notCache  == <<program, buildVars, driverVars, devVars, mfVars, dnrVars, i18nVars,
               exVars,
               probeVars, storeVars, bgVars>>
notProbe  == <<program, buildVars, driverVars, devVars, mfVars, dnrVars, i18nVars,
               exVars, cacheVars, storeVars, bgVars>>
notStore  == <<program, buildVars, driverVars, devVars, mfVars, dnrVars, i18nVars,
               exVars, cacheVars, probeVars, bgVars>>
notBg     == <<program, buildVars, driverVars, devVars, mfVars, dnrVars, i18nVars,
               exVars, cacheVars, probeVars, storeVars>>

(***************************************************************************)
(* Targets and target bases (scripts/build/constants.ts).                  *)
(***************************************************************************)
TARGETS == {"chrome", "firefox", "edge", "safari"}
SUPPORTED_TARGETS == {"chrome", "firefox", "edge"}

getTargetBaseFromTarget(target) ==
    CASE target \in {"chrome", "edge"} -> "chromium"
      [] target = "firefox" -> "firefox"
      [] target = "safari" -> "apple"

(***************************************************************************)
(* build(): the tasks array, in the order of the source.                   *)
(***************************************************************************)
tasks == <<"buildJS", "writeManifest", "copyAssets", "writeDNRRules",
           "writeI18n", "writeHTMLFiles", "compileSCSS">>
Steps == {tasks[i] : i \in 1..Len(tasks)}

Settled == {"fulfilled", "rejected"}

\* The outcome of one step: it rejects exactly when the environment makes it throw.
StepOutcome(t, s) == IF s \in throws[t] THEN "rejected" ELSE "fulfilled"

\* Promise.allSettled(tasks) has settled: no task is still pending.
AllSettled(t) == \A s \in Steps : stepState[t][s] \in Settled

\* result.every((r) => r.status === "fulfilled")
EveryFulfilledMutant(st) == \E s \in Steps : st[s] = "fulfilled"
EveryFulfilled(st) == \A s \in Steps : st[s] = "fulfilled"

\* The guard under which build() resumes after `await Promise.allSettled(tasks)`.
AwaitResumesMutant(t) == \E s \in Steps : stepState[t][s] = "rejected"
AwaitResumes(t) == AllSettled(t)

\* The branch build() takes once the settled results are in hand.
AfterSettleMutant(t, st) ==
    IF EveryFulfilled(st) THEN "convert" ELSE "Failed"
AfterSettle(t, st) ==
    IF EveryFulfilled(st)
    THEN IF getTargetBaseFromTarget(t) = "apple" THEN "convert" ELSE "Succeeded"
    ELSE "Failed"

\* The targets this behaviour builds: the one of the command line, or the
\* driver's SUPPORTED_TARGETS; none in the other programs.
Built == DOMAIN buildPc

IdleBuild ==
    /\ throws = <<>>
    /\ buildPc = <<>>
    /\ stepState = <<>>
    /\ converted = {}

IdleDriver ==
    /\ uploadToAmo = FALSE
    /\ taskPc = <<>>
    /\ archives = {}
    /\ xpis = {}
    /\ outDirs = {}
    /\ written = {}
    /\ driverPc = "idle"

MaxClients == 1
MaxChanges == 2
Clients == 1..MaxClients

IdleDev ==
    /\ devPc = "idle"
    /\ connections = {}
    /\ rebuild = <<>>
    /\ received = <<>>
    /\ sockets = <<>>

IdleMf ==
    /\ mfArgs = <<>>
    /\ mfOut = <<>>

IdleDnr ==
    /\ STATIC_RULES_START_ID = 0
    /\ dnrArgs = <<>>
    /\ dnrOut = <<>>

IdleI18n ==
    /\ i18nArgs = <<>>
    /\ i18nOut = <<>>

IdleEx ==
    /\ exArgs = <<>>
    /\ exOut = <<>>

IdleCache ==
    /\ cacheFile = <<>>
    /\ calls = <<>>
    /\ snap = <<>>

IdleProbe ==
    /\ prArgs = <<>>
    /\ prOut = <<>>

IdleStore ==
    /\ stData = <<>>
    /\ stFile = <<>>
    /\ stQueue = <<>>
    /\ stOps = <<>>

IdleBg ==
    /\ bgMsg = <<>>
    /\ bgPc = <<>>
    /\ bgOut = <<>>

\* The programs that run none of the functions below.
IdleLate == IdleProbe /\ IdleStore /\ IdleBg
IdleRest == IdleEx /\ IdleCache /\ IdleLate

\* The programs before the three last ones run none of their functions.
IdleEarly ==
    /\ IdleBuild
    /\ IdleDriver
    /\ IdleDev
    /\ IdleMf
    /\ IdleDnr
    /\ IdleI18n
    /\ IdleEx
    /\ IdleCache

(***************************************************************************)
(* Program "build": `bun scripts/build.ts --target <t>` (import.meta.main).*)
(* emptyDir, mkdir and getManifest are taken to succeed.                   *)
(***************************************************************************)
InitBuild ==
    /\ program = "build"
    /\ IdleRest
    /\ \E t \in TARGETS, S \in SUBSET Steps :
          /\ throws = [u \in {t} |-> S]
          /\ buildPc = [u \in {t} |-> "Init"]
          /\ stepState = [u \in {t} |-> [s \in Steps |-> "notLaunched"]]
    /\ converted = {}
    /\ IdleDriver
    /\ IdleDev
    /\ IdleMf
    /\ IdleDnr
    /\ IdleI18n

\* build(), lines 584-631: empty the output directory, read the manifest and
\* launch the seven steps; every step function is called before the await.
BuildLaunch(t) ==
    /\ program = "build"
    /\ buildPc[t] = "Init"
    /\ buildPc' = [buildPc EXCEPT ![t] = "RunningSteps"]
    /\ stepState' = [stepState EXCEPT ![t] = [s \in Steps |-> "running"]]
    /\ UNCHANGED <<notBuild, throws, converted>>

\* One launched step settles; nothing but its own state is consulted.
StepSettle(t, s) ==
    /\ program = "build"
    /\ stepState[t][s] = "running"
    /\ stepState' = [stepState EXCEPT ![t][s] = StepOutcome(t, s)]
    /\ UNCHANGED <<notBuild, throws, buildPc, converted>>

\* build(), lines 633-640: the await resumes and the results are inspected.
BuildInspect(t) ==
    /\ program = "build"
    /\ buildPc[t] = "RunningSteps"
    /\ AwaitResumes(t)
    /\ buildPc' = [buildPc EXCEPT ![t] = AfterSettle(t, stepState[t])]
    /\ UNCHANGED <<notBuild, throws, stepState, converted>>

\* convertToSafariExtension(outDir): the xcrun command and the moves resolve
\* (the output is replaced by the wrapped project) or reject (build() throws).
ConvertSettle(t, ok) ==
    /\ program = "build"
    /\ buildPc[t] = "convert"
    /\ buildPc' = [buildPc EXCEPT ![t] = IF ok THEN "Succeeded" ELSE "Failed"]
    /\ converted' = IF ok THEN converted \cup {t} ELSE converted
    /\ UNCHANGED <<notBuild, throws, stepState>>

NextBuild ==
    \/ \E t \in Built : BuildLaunch(t)
    \/ \E t \in Built, s \in Steps : StepSettle(t, s)
    \/ \E t \in Built : BuildInspect(t)
    \/ \E t \in Built, ok \in BOOLEAN : ConvertSettle(t, ok)

SpecBuild == InitBuild /\ [][NextBuild]_vars

\* The event loop keeps running pending work: a launched step settles, a resumable
\* await resumes.
SpecBuildFair == SpecBuild /\ WF_vars(NextBuild)

Ended == {"Succeeded", "Failed"}
Rejected(t) == {s \in Steps : stepState[t][s] = "rejected"}

\* C2: in build(), all seven steps are launched together; every launched step
\* settles whatever its siblings did; and build() goes past the await (to the
\* post-processing or to its end) only when all seven have settled.
C2_StepsRunToCompletion ==
    /\ [](\A t \in Built :
            /\ buildPc[t] = "RunningSteps" =>
                 \A s \in Steps : stepState[t][s] # "notLaunched"
            /\ buildPc[t] \in Ended \cup {"convert"} => AllSettled(t))
    /\ \A t \in TARGETS :
          (t \in Built /\ buildPc[t] = "RunningSteps")
              ~> (t \in Built /\ AllSettled(t) /\ buildPc[t] \in Ended)

\* A build whose outcome was inspected after one step had rejected and a sibling
\* had nevertheless run to its fulfilment.
C2_Witness ==
    \E t \in Built, r \in Steps, f \in Steps :
        /\ buildPc[t] = "Failed"
        /\ stepState[t][r] = "rejected"
        /\ stepState[t][f] = "fulfilled"
        /\ AllSettled(t)

\* C3 as stated: build() resolves if and only if every step was fulfilled, and
\* throws if any step rejected.
C3_ResolvesIffAllFulfilled ==
    \A t \in Built :
        /\ buildPc[t] = "Succeeded" => EveryFulfilled(stepState[t])
        /\ buildPc[t] = "Failed" => ~EveryFulfilled(stepState[t])

\* C3 as amended: build() resolves if and only if every step was fulfilled and,
\* for an apple target, convertToSafariExtension resolved as well; a rejected
\* step always makes build() throw, and without one build() throws only when
\* the apple post-processing rejected.
C3_ResolvesIffAllFulfilledAndConverted ==
    \A t \in Built :
        LET apple == getTargetBaseFromTarget(t) = "apple"
        IN /\ buildPc[t] = "Succeeded" =>
                 EveryFulfilled(stepState[t]) /\ (apple => t \in converted)
           /\ buildPc[t] = "Failed" =>
                 \/ Rejected(t) # {}
                 \/ apple /\ EveryFulfilled(stepState[t]) /\ t \notin converted
           /\ (AllSettled(t) /\ Rejected(t) # {}) =>
                 buildPc[t] \in {"RunningSteps", "Failed"}

\* A build that threw because exactly one of its seven steps rejected.
C3_Witness ==
    \E t \in Built :
        /\ buildPc[t] = "Failed"
        /\ Cardinality(Rejected(t)) = 1
        /\ AllSettled(t)

(***************************************************************************)
(* Program "driver": scripts/buildRedistribution.ts.  One async task per   *)
(* supported target runs build(), zips the output, optionally signs the    *)
(* firefox package and removes the output directory; the tasks are joined  *)
(* by Promise.all under a top-level await.                                 *)
(*                                                                         *)
(* Inside the driver a target's build() is one step, DriverBuild: its      *)
(* result is the one BuildInspect computes from the settled steps.  The    *)
(* step-by-step behaviour of build() is that of program "build".           *)
(***************************************************************************)
\* The step failures the driver is run against.
ThrowCases == {{}, {"compileSCSS"}, {"writeManifest", "compileSCSS"}}

InitDriver ==
    /\ program = "driver"
    /\ IdleRest
    /\ throws \in [SUPPORTED_TARGETS -> ThrowCases]
    /\ buildPc = [t \in SUPPORTED_TARGETS |-> "Init"]
    /\ stepState = [t \in SUPPORTED_TARGETS |-> [s \in Steps |-> "notLaunched"]]
    /\ converted = {}
    /\ uploadToAmo \in BOOLEAN
    /\ taskPc = [t \in SUPPORTED_TARGETS |-> "build"]
    /\ archives = {}
    /\ xpis = {}
    /\ outDirs = {}
    /\ written = {}
    /\ driverPc = "running"
    /\ IdleDev
    /\ IdleMf
    /\ IdleDnr
    /\ IdleI18n

\* line 24: manifest.version, as the folder names carry it.
ManifestVersion == "2.1.0"

\* lines 22-24: outDir = `${parentFolder}${folder}`.
OutDir(t) == "builds-dist/RoSeal-" \o t \o "-" \o ManifestVersion

\* The paths one step of build() writes, each as <<directory, name>>
\* (scripts/build.ts: the Bun.write, copy, emptyDir and Bun.build calls of the
\* step; writeI18n also writes the generated types into the source tree).
StepWrites(outDir, s) ==
    CASE s = "buildJS" -> {<<outDir, "/js/">>}
      [] s = "writeManifest" -> {<<outDir, "/manifest.json">>}
      [] s = "copyAssets" -> {<<outDir, "/LICENSE">>, <<outDir, "/img/">>, <<outDir, "/fonts/">>}
      [] s = "writeDNRRules" -> {<<outDir, "/dnr_rules.json">>}
      [] s = "writeI18n" -> {<<"./src/types", "/i18n.gen.d.ts">>, <<outDir, "/_locales/">>}
      [] s = "writeHTMLFiles" -> {<<outDir, "/html/">>}
      [] s = "compileSCSS" -> {<<outDir, "/css/">>}

\* What build() of target t writes: emptyDir(outDir) and mkdir js (lines
\* 591-592), then the paths of the steps that ran through.
BuildWrites(t, st) ==
    {<<OutDir(t), "/">>, <<OutDir(t), "/js/">>}
        \cup UNION {StepWrites(OutDir(t), s) : s \in {x \in Steps : st[x] = "fulfilled"}}

\* lines 44-52: where the task goes after the signing block; the empty catch
\* swallows a failure of web-ext sign or of the move.
AfterSignMutant(ok) == IF ok THEN "remove" ELSE "rejected"
AfterSign(ok) == "remove"

\* The first rejection of a task rejects Promise.all at once: the top-level await
\* throws (driverPc = "failing") and the process ends (DriverExit) while sibling
\* tasks are still pending.
\* lines 28-36: await build({...}); a rejection rejects the task.
DriverBuild(t) ==
    /\ program = "driver"
    /\ driverPc \in {"running", "failing"}
    /\ taskPc[t] = "build"
    /\ LET st == [s \in Steps |-> StepOutcome(t, s)]
           res == AfterSettle(t, st)
       IN /\ stepState' = [stepState EXCEPT ![t] = st]
          /\ buildPc' = [buildPc EXCEPT ![t] = res]
          /\ outDirs' = outDirs \cup {t}
          /\ written' = written \cup {[target |-> t, path |-> p] : p \in BuildWrites(t, st)}
          /\ taskPc' = [taskPc EXCEPT ![t] = IF res = "Succeeded" THEN "zip" ELSE "rejected"]
          /\ driverPc' = IF res = "Succeeded" THEN driverPc ELSE "failing"
    /\ UNCHANGED <<notDriver, throws, converted, uploadToAmo, archives, xpis>>

\* lines 38-42: zip -r ../<folder>.zip . inside the output directory.
DriverZip(t) ==
    /\ program = "driver"
    /\ driverPc \in {"running", "failing"}
    /\ taskPc[t] = "zip"
    /\ archives' = archives \cup {t}
    /\ taskPc' = [taskPc EXCEPT ![t] =
                    IF uploadToAmo /\ t = "firefox" THEN "sign" ELSE "remove"]
    /\ UNCHANGED <<notDriver, buildVars, uploadToAmo, xpis, outDirs, written, driverPc>>

\* lines 44-52: web-ext sign and the move of the .xpi, inside try { } catch {}.
DriverSign(t, ok) ==
    /\ program = "driver"
    /\ driverPc \in {"running", "failing"}
    /\ taskPc[t] = "sign"
    /\ xpis' = IF ok THEN xpis \cup {t} ELSE xpis
    /\ taskPc' = [taskPc EXCEPT ![t] = AfterSign(ok)]
    /\ UNCHANGED <<notDriver, buildVars, uploadToAmo, archives, outDirs, written, driverPc>>

\* line 54: return remove(outDir).
DriverRemove(t) ==
    /\ program = "driver"
    /\ driverPc \in {"running", "failing"}
    /\ taskPc[t] = "remove"
    /\ outDirs' = outDirs \ {t}
    /\ taskPc' = [taskPc EXCEPT ![t] = "done"]
    /\ UNCHANGED <<notDriver, buildVars, uploadToAmo, archives, xpis, written, driverPc>>

\* Promise.all resolves when every task has resolved; the script ends.
DriverResolve ==
    /\ program = "driver"
    /\ driverPc = "running"
    /\ \A t \in SUPPORTED_TARGETS : taskPc[t] = "done"
    /\ driverPc' = "resolved"
    /\ UNCHANGED <<notDriver, buildVars, uploadToAmo, taskPc, archives, xpis, outDirs, written>>

\* The rejected top-level await ends the process; the pending tasks never resume.
DriverExit ==
    /\ program = "driver"
    /\ driverPc = "failing"
    /\ driverPc' = "exited"
    /\ UNCHANGED <<notDriver, buildVars, uploadToAmo, taskPc, archives, xpis, outDirs, written>>

NextDriver ==
    \/ \E t \in SUPPORTED_TARGETS : DriverBuild(t)
    \/ \E t \in SUPPORTED_TARGETS : DriverZip(t)
    \/ \E t \in SUPPORTED_TARGETS, ok \in BOOLEAN : DriverSign(t, ok)
    \/ \E t \in SUPPORTED_TARGETS : DriverRemove(t)
    \/ DriverResolve
    \/ DriverExit

SpecDriver == InitDriver /\ [][NextDriver]_vars

\* C1: when the driver has ended, a target none of whose steps throws has its
\* zip archive even though a sibling target's build failed, and the failing
\* target has none.
C1_FailureIsolation ==
    driverPc \in {"resolved", "exited"} =>
        \A a \in SUPPORTED_TARGETS, b \in SUPPORTED_TARGETS :
            (throws[a] # {} /\ throws[b] = {}) =>
                (b \in archives /\ a \notin archives)

(***************************************************************************)
(* Program "dev": scripts/dev.ts.  A websocket server keeps the Set of     *)
(* open connections; after the initial build six fs.watch callbacks call   *)
(* handleChange with the promise of the steps to rerun and the type of the *)
(* notification to send.                                                   *)
(***************************************************************************)
\* The watch() calls, lines 111-190: watched path -> steps rerun, notification type.
WatchersMutant ==
    [scss     |-> [steps |-> {"compileSCSS"},        type |-> <<"CSS">>],
     ts       |-> [steps |-> {"buildJS", "writeI18n"}, type |-> <<"Reload">>],
     img      |-> [steps |-> {"copyAssets"},         type |-> <<>>],
     i18n     |-> [steps |-> {"writeI18n", "buildJS"}, type |-> <<"Reload">>],
     manifest |-> [steps |-> {"writeManifest"},      type |-> <<"Reload">>],
     html     |-> [steps |-> {"writeHTMLFiles"},     type |-> <<"Reload">>]]
Watchers ==
    [scss     |-> [steps |-> {"compileSCSS"},        type |-> <<"CSS">>],
     ts       |-> [steps |-> {"buildJS"},            type |-> <<"Reload">>],
     img      |-> [steps |-> {"copyAssets"},         type |-> <<>>],
     i18n     |-> [steps |-> {"writeI18n", "buildJS"}, type |-> <<"Reload">>],
     manifest |-> [steps |-> {"writeManifest"},      type |-> <<"Reload">>],
     html     |-> [steps |-> {"writeHTMLFiles"},     type |-> <<"Reload">>]]
WatchedPaths == DOMAIN Watchers

\* A client without a websocket.
NoSocket == [open |-> FALSE, had |-> 0, after |-> 0, settled |-> {}]

InitDev ==
    /\ program = "dev"
    /\ IdleRest
    /\ IdleBuild
    /\ IdleDriver
    /\ devPc = "initialBuild"
    /\ connections = {}
    /\ rebuild = <<>>
    /\ received = [c \in Clients |-> <<>>]
    /\ sockets = [c \in Clients |-> NoSocket]
    /\ IdleMf
    /\ IdleDnr
    /\ IdleI18n

\* line 38: connections.delete(ws)
SetDeleteMutant(set, ws) == set
SetDelete(set, ws) == set \ {ws}

\* A client's websocket is upgraded and websocket.open runs, lines 22-36.  The
\* socket notes what the client had received, how many change events had
\* occurred and which of them had settled by then.
WsOpen(c) ==
    /\ program = "dev"
    /\ ~sockets[c].open
    /\ connections' = connections \cup {c}
    /\ sockets' = [sockets EXCEPT ![c] =
                      [open |-> TRUE, had |-> Len(received[c]), after |-> Len(rebuild),
                       settled |-> {n \in DOMAIN rebuild : rebuild[n].state # "running"}]]
    /\ UNCHANGED <<notDev, devPc, rebuild, received>>

\* A client's websocket closes and websocket.close runs, lines 37-39.
WsClose(c) ==
    /\ program = "dev"
    /\ sockets[c].open
    /\ connections' = SetDelete(connections, c)
    /\ sockets' = [sockets EXCEPT ![c] = NoSocket]
    /\ UNCHANGED <<notDev, devPc, rebuild, received>>

\* lines 49-92: the initial build settles (its rejection is caught) and the
\* script goes on to register the watchers.
InitialBuildSettle ==
    /\ program = "dev"
    /\ devPc = "initialBuild"
    /\ devPc' = "watching"
    /\ UNCHANGED <<notDev, connections, rebuild, received, sockets>>

\* A watch callback fires: handleChange is called with the promise of the
\* rerun steps, which start at once.
Change(w) ==
    /\ program = "dev"
    /\ devPc = "watching"
    /\ Len(rebuild) < MaxChanges
    /\ rebuild' = Append(rebuild, [watch |-> w, steps |-> Watchers[w].steps,
                                   state |-> "running"])
    /\ UNCHANGED <<notDev, devPc, connections, received, sockets>>

\* The clients the callback chained by handleChange (lines 98-108) sends to:
\* updateLog returns the promise it was given, and .then is given a fulfilment
\* handler only, which sends when a type was passed.
Recipients(type, ok) ==
    IF ok /\ type # <<>> THEN connections ELSE {}

\* The promise handed to handleChange settles.
RebuildSettle(n, ok) ==
    /\ program = "dev"
    /\ rebuild[n].state = "running"
    /\ LET type == Watchers[rebuild[n].watch].type
       IN received' = [c \in Clients |->
                         IF c \in Recipients(type, ok)
                         THEN Append(received[c], [type |-> type[1], change |-> n])
                         ELSE received[c]]
    /\ rebuild' = [rebuild EXCEPT ![n].state = IF ok THEN "fulfilled" ELSE "rejected"]
    /\ UNCHANGED <<notDev, devPc, connections, sockets>>

NextDev ==
    \/ \E c \in Clients : WsOpen(c)
    \/ \E c \in Clients : WsClose(c)
    \/ InitialBuildSettle
    \/ \E w \in WatchedPaths : Change(w)
    \/ \E n \in DOMAIN rebuild, ok \in BOOLEAN : RebuildSettle(n, ok)

SpecDev == InitDev /\ [][NextDev]_vars

\* C4: whenever the rebuild promise of a change settles, fulfilled or rejected,
\* every client in the connection set is sent the notification (stated for the
\* watchers that pass a type).
C4_BroadcastAfterSettle ==
    [][\A n \in DOMAIN rebuild :
          (/\ rebuild[n].state = "running"
           /\ rebuild'[n].state \in Settled
           /\ Watchers[rebuild[n].watch].type # <<>>) =>
              \A c \in connections :
                  received'[c] = Append(received[c],
                                        [type |-> Watchers[rebuild[n].watch].type[1],
                                         change |-> n])]_vars

(***************************************************************************)
(* Sequence helpers standing for the JavaScript array and string methods   *)
(* the pipeline uses.                                                      *)
(***************************************************************************)
\* All sequences over S of length at most n.
SeqsUpTo(S, n) == UNION {[1..k -> S] : k \in 0..n}

\* A value of S, or undefined.
Opt(S) == {<<>>} \cup {<<x>> : x \in S}

\* String.prototype.endsWith
EndsWith(str, suffix) ==
    /\ Len(str) >= Len(suffix)
    /\ SubSeq(str, Len(str) - Len(suffix) + 1, Len(str)) = suffix

\* Array.prototype.includes
Includes(arr, x) == \E i \in 1..Len(arr) : arr[i] = x

\* Array.prototype.flatMap((group) => group.resources)
RECURSIVE FlatResources(_)
FlatResources(groups) ==
    IF groups = <<>> THEN <<>>
    ELSE Head(groups).resources \o FlatResources(Tail(groups))

\* String.prototype.replace(token, by): the first occurrence only.
RECURSIVE ReplaceFirst(_, _, _)
ReplaceFirst(str, token, by) ==
    IF str = <<>> THEN <<>>
    ELSE IF Head(str) = token THEN <<by>> \o Tail(str)
    ELSE <<Head(str)>> \o ReplaceFirst(Tail(str), token, by)

\* x ?? []
OrEmpty(opt) == IF opt = <<>> THEN <<>> ELSE opt[1]

(***************************************************************************)
(* transformManifest (scripts/build/utils.ts, lines 118-249).              *)
(*                                                                         *)
(* A manifest is a record holding every key the function reads or writes;  *)
(* a key that is absent or undefined holds <<>> (JSON.stringify drops      *)
(* both), a present one <<value>>.  Resource names are character           *)
(* sequences; version_name is a sequence of text pieces in which the       *)
(* placeholder __manifest_version__ is one piece.                          *)
(***************************************************************************)
DotMap == <<".", "m", "a", "p">>

\* item.endsWith(".map") negated: the filter predicate of line 129.
KeepResourceMutant(item) == item # DotMap
KeepResource(item) == ~EndsWith(item, DotMap)

\* lines 127-137: the source-map filter of a non-development build.
StripSourceMaps(war) ==
    LET filtered == [i \in 1..Len(war) |->
                       [war[i] EXCEPT !.resources =
                           SelectSeq(war[i].resources, KeepResource)]]
        kept == SelectSeq(filtered, LAMBDA g : Len(g.resources) > 0)
    IN IF Len(kept) = 0 THEN <<>> ELSE <<kept>>

\* lines 139-142: the localhost wildcard pushed onto host_permissions.
LocalhostAppliesMutant(devServers, isDev) ==
    devServers # <<>> /\ devServers[1].IS_DEV_API_ACCESSIBLE /\ isDev
LocalhostApplies(devServers, isDev) == devServers # <<>> /\ isDev

\* lines 149-157: the object built for the chromium and apple families.
NonFirefoxShapeMutant(m) ==
    [m EXCEPT !.options_ui = <<>>,
              !.store_version = <<>>,
              !.version = m.store_version,
              !.version_name = <<>>]
NonFirefoxShape(m) ==
    [m EXCEPT !.options_ui = <<>>,
              !.store_version = <<>>,
              !.version = m.store_version,
              !.version_name =
                  IF m.version_name = <<>> THEN <<>>
                  ELSE <<ReplaceFirst(m.version_name[1], "__manifest_version__",
                                      m.version[1])>>]

\* line 175: permissions: [...(host_permissions ?? []), ...(permissions ?? [])]
GeckoPermissionsMutant(m) == OrEmpty(m.permissions)
GeckoPermissions(m) == OrEmpty(m.host_permissions) \o OrEmpty(m.permissions)

\* lines 159-187: the object built for the firefox family.
FirefoxShape(m) ==
    [m EXCEPT !.store_version = <<>>,
              !.version = m.store_version,
              !.manifest_version = <<2>>,
              !.version_name = <<>>,
              !.host_permissions = <<>>,
              !.optional_host_permissions = <<>>,
              !.optional_permissions =
                  <<OrEmpty(m.optional_host_permissions) \o OrEmpty(m.optional_permissions)>>,
              !.permissions = <<GeckoPermissions(m)>>,
              !.action = <<>>,
              !.browser_action = m.action,
              !.incognito = <<"spanning">>,
              !.background =
                  IF m.background = <<>> THEN <<>>
                  ELSE <<[service_worker |-> <<>>,
                          scripts |-> <<m.background[1].service_worker>>]>>,
              !.web_accessible_resources =
                  IF m.web_accessible_resources = <<>> THEN <<>>
                  ELSE <<FlatResources(m.web_accessible_resources[1])>>]

\* browser_specific_settings with every family absent.
NoSettings ==
    [chrome |-> <<>>, firefox |-> <<>>, safari |-> <<>>,
     gecko |-> <<>>, gecko_android |-> <<>>]

\* obj?.key on an optional settings object
Chain(opt, key) == IF opt = <<>> THEN <<>> ELSE opt[1][key]

\* lines 207-217: let id, as the firefox case leaves it.
GeckoIdMutant(firefox, beta, isDev) ==
    IF ~isDev /\ beta THEN Chain(firefox, "beta_id") ELSE <<>>
GeckoId(firefox, beta, isDev) ==
    IF ~isDev
    THEN IF beta THEN Chain(firefox, "beta_id") ELSE Chain(firefox, "id")
    ELSE <<>>

\* lines 208-214: let updateUrl, as the firefox case leaves it.
GeckoUpdateUrl(firefox, beta, isDev) ==
    IF ~isDev /\ beta THEN Chain(firefox, "beta_id") ELSE <<>>

\* lines 206-234: the gecko identity block.
GeckoSettings(m, isDev) ==
    LET bss == m.browser_specific_settings[1]
        beta == m.beta = <<TRUE>>
        id == GeckoId(bss.firefox, beta, isDev)
        updateUrl == GeckoUpdateUrl(bss.firefox, beta, isDev)
    IN [NoSettings EXCEPT
          !.gecko = IF bss.firefox = <<>> THEN <<>>
                    ELSE <<[bss.firefox[1] EXCEPT !.beta_id = <<>>,
                                                  !.beta_update_url = <<>>,
                                                  !.id = id,
                                                  !.update_url = updateUrl,
                                                  !.android = <<>>]>>,
          !.gecko_android = Chain(bss.firefox, "android")]

\* lines 190-237: the per-family settings fan-out.
FamilySettings(m, targetBase, isDev) ==
    IF m.browser_specific_settings = <<>> THEN m
    ELSE LET bss == m.browser_specific_settings[1]
         IN CASE targetBase = "apple" ->
                   [m EXCEPT !.browser_specific_settings =
                                <<[NoSettings EXCEPT !.safari = bss.safari]>>]
              [] targetBase = "chromium" ->
                   [m EXCEPT !.key = IF isDev THEN Chain(bss.chrome, "key") ELSE m.key,
                             !.minimum_chrome_version = Chain(bss.chrome, "strict_min_version"),
                             !.browser_specific_settings = <<>>]
              [] targetBase = "firefox" ->
                   [m EXCEPT !.browser_specific_settings = <<GeckoSettings(m, isDev)>>]

\* lines 239-244: what the apple family strips.
AppleStripMutant(m) == [m EXCEPT !.incognito = <<>>]
AppleStrip(m) ==
    [m EXCEPT !.incognito = <<>>,
              !.optional_permissions =
                  IF m.optional_permissions = <<>> THEN <<>>
                  ELSE <<SelectSeq(m.optional_permissions[1],
                                   LAMBDA item : item # "cookies")>>]

\* line 124: structuredClone(_manifest) copies every nested object, so the
\* clone shares none of them with the source; a spread copy would share them all.
CloneSharesMutant(key) == TRUE
CloneShares(key) == FALSE

\* The source object after the call: the statements that write into a nested
\* object of manifest (lines 128-130, 140-141, 219-222) write into the source
\* where the clone shares that object.
SourceAfterCall(_manifest, targetBase, isDev, devServers) ==
    LET s1 == IF /\ CloneShares("web_accessible_resources")
                 /\ _manifest.web_accessible_resources # <<>>
                 /\ ~isDev
              THEN [_manifest EXCEPT !.web_accessible_resources =
                      <<[i \in 1..Len(_manifest.web_accessible_resources[1]) |->
                          [_manifest.web_accessible_resources[1][i] EXCEPT !.resources =
                              SelectSeq(@, KeepResource)]]>>]
              ELSE _manifest
        s2 == IF /\ CloneShares("host_permissions")
                 /\ s1.host_permissions # <<>>
                 /\ LocalhostApplies(devServers, isDev)
              THEN [s1 EXCEPT !.host_permissions =
                                 <<Append(s1.host_permissions[1], "*://localhost/*")>>]
              ELSE s1
    IN IF /\ CloneShares("browser_specific_settings")
          /\ targetBase = "firefox"
          /\ s2.browser_specific_settings # <<>>
          /\ s2.browser_specific_settings[1].firefox # <<>>
       THEN [s2 EXCEPT !.browser_specific_settings[1].firefox[1].beta_id = <<>>,
                       !.browser_specific_settings[1].firefox[1].beta_update_url = <<>>]
       ELSE s2

transformManifest(_manifest, targetBase, isDev, devServers) ==
    LET m0 == [_manifest EXCEPT !.schema = <<>>]
        m1 == IF m0.web_accessible_resources # <<>> /\ ~isDev
              THEN [m0 EXCEPT !.web_accessible_resources =
                                 StripSourceMaps(m0.web_accessible_resources[1])]
              ELSE m0
        m2 == IF LocalhostApplies(devServers, isDev)
              THEN [m1 EXCEPT !.host_permissions =
                                 <<Append(OrEmpty(m1.host_permissions), "*://localhost/*")>>]
              ELSE m1
        m3 == IF m2.beta = <<TRUE>> /\ ~isDev
              THEN [m2 EXCEPT !.short_name = <<"RoSeal BETA">>, !.name = <<"RoSeal BETA">>]
              ELSE m2
        m4 == IF targetBase # "firefox" THEN NonFirefoxShape(m3) ELSE FirefoxShape(m3)
        m5 == FamilySettings(m4, targetBase, isDev)
        m6 == IF targetBase = "apple" THEN AppleStrip(m5) ELSE m5
    IN [m6 EXCEPT !.beta = <<>>]

(***************************************************************************)
(* Program "manifest": one call of transformManifest, as writeManifest     *)
(* makes it.  The source manifests are a base manifest with one group of   *)
(* keys varied at a time: the groups are the sets of keys that the         *)
(* function reads together.                                                *)
(***************************************************************************)
MaxPerms == 2
MaxGroups == 2
MaxResources == 2

HostPatterns == {"*://example.com/*", "*://localhost/*"}
PermissionNames == {"storage"}
OptionalNames == {"cookies", "tabs"}
ResourceNames == {<<"a", ".", "j", "s">>, <<"a", ".", "m", "a", "p">>}

BaseManifest ==
    [schema |-> <<"manifest.schema.json">>,
     name |-> <<"RoSeal">>,
     short_name |-> <<"RoSeal">>,
     beta |-> <<>>,
     version |-> <<"2.1.0">>,
     store_version |-> <<"2.1.0.1">>,
     version_name |-> <<>>,
     manifest_version |-> <<3>>,
     permissions |-> << <<"storage">> >>,
     host_permissions |-> << <<"*://example.com/*">> >>,
     optional_permissions |-> <<>>,
     optional_host_permissions |-> <<>>,
     web_accessible_resources |-> <<>>,
     action |-> <<>>,
     browser_action |-> <<>>,
     options_ui |-> <<>>,
     incognito |-> <<>>,
     background |-> <<>>,
     browser_specific_settings |-> <<>>,
     key |-> <<>>,
     minimum_chrome_version |-> <<>>]

PermissionManifests ==
    {[BaseManifest EXCEPT !.host_permissions = hp,
                          !.permissions = p,
                          !.optional_permissions = op,
                          !.optional_host_permissions = ohp,
                          !.incognito = inc] :
        hp \in Opt(SeqsUpTo(HostPatterns, MaxPerms)),
        p \in Opt(SeqsUpTo(PermissionNames, MaxPerms)),
        op \in Opt(SeqsUpTo(OptionalNames, MaxPerms)),
        ohp \in Opt({<<"*://cdn.example.com/*">>}),
        inc \in Opt({"split"})}

ResourceGroups ==
    {[resources |-> r, matches |-> <<"<all_urls>">>] :
        r \in SeqsUpTo(ResourceNames, MaxResources)}

ResourceManifests ==
    {[BaseManifest EXCEPT !.web_accessible_resources = war] :
        war \in Opt(SeqsUpTo(ResourceGroups, MaxGroups))}

FirefoxSettings ==
    {[id |-> id, beta_id |-> bid, beta_update_url |-> burl, android |-> andr,
      key |-> <<>>, update_url |-> <<>>,
      strict_min_version |-> <<"109.0">>, strict_max_version |-> <<>>] :
        id \in Opt({"roseal@id"}),
        bid \in Opt({"roseal-beta@id"}),
        burl \in Opt({"https://updates/beta.json"}),
        andr \in Opt({[strict_min_version |-> <<"120.0">>]})}

ChromeSettings ==
    {[key |-> <<"MIIB">>, strict_min_version |-> <<"120">>],
     [key |-> <<>>, strict_min_version |-> <<>>]}

SafariSettings == {[strict_min_version |-> <<"16.4">>]}

SettingsManifests ==
    {[BaseManifest EXCEPT !.beta = beta, !.browser_specific_settings = bss] :
        beta \in Opt(BOOLEAN),
        bss \in Opt({[NoSettings EXCEPT !.chrome = c, !.firefox = f, !.safari = sf] :
                        c \in Opt(ChromeSettings),
                        f \in Opt(FirefoxSettings),
                        sf \in Opt(SafariSettings)})}

ShapeManifests ==
    {[BaseManifest EXCEPT !.schema = sch,
                          !.action = act,
                          !.options_ui = ui,
                          !.background = bg,
                          !.version_name = vn] :
        sch \in Opt({"manifest.schema.json"}),
        act \in Opt({[default_popup |-> "html/popup.html"]}),
        ui \in Opt({[page |-> "html/options.html"]}),
        bg \in Opt({[service_worker |-> <<"js/background.js">>, scripts |-> <<>>]}),
        vn \in Opt({<<"v", "__manifest_version__">>,
                    <<"__manifest_version__", "+", "__manifest_version__">>})}

SourceManifests ==
    PermissionManifests \cup ResourceManifests \cup SettingsManifests \cup ShapeManifests

TargetBases == {"chromium", "firefox", "apple"}

\* devServers as the callers pass it: not at all, or the record that
\* getDevServersAvailable resolved to.
DevServersCases ==
    Opt({[IS_DEV_API_ACCESSIBLE |-> api, IS_DEV_WWW_ACCESSIBLE |-> FALSE,
          IS_DEV_WS_ACCESSIBLE |-> ws] : api \in BOOLEAN, ws \in BOOLEAN})

\* lines 553-575: what getDevServersAvailable(isDev) can resolve to.
getDevServersAvailable(isDev) ==
    IF ~isDev
    THEN {[IS_DEV_API_ACCESSIBLE |-> FALSE, IS_DEV_WWW_ACCESSIBLE |-> FALSE,
           IS_DEV_WS_ACCESSIBLE |-> FALSE]}
    ELSE [IS_DEV_API_ACCESSIBLE : BOOLEAN, IS_DEV_WWW_ACCESSIBLE : BOOLEAN,
          IS_DEV_WS_ACCESSIBLE : BOOLEAN]

\* The number of calls made on one source object.
MaxTransforms == 2

InitManifest ==
    /\ program = "manifest"
    /\ IdleRest
    /\ IdleBuild
    /\ IdleDriver
    /\ IdleDev
    /\ IdleDnr
    /\ IdleI18n
    /\ mfArgs \in [manifest : SourceManifests, targetBase : TargetBases,
                   isDev : BOOLEAN, devServers : DevServersCases]
    /\ mfArgs.devServers # <<>> => mfArgs.devServers[1] \in getDevServersAvailable(mfArgs.isDev)
    /\ mfOut = <<>>

\* One call returns the transformed manifest; mfOut holds the results of the
\* calls made so far, mfArgs.manifest the source object as the call leaves it.
TransformManifest ==
    /\ program = "manifest"
    /\ Len(mfOut) < MaxTransforms
    /\ mfOut' = Append(mfOut, transformManifest(mfArgs.manifest, mfArgs.targetBase,
                                                mfArgs.isDev, mfArgs.devServers))
    /\ mfArgs' = [mfArgs EXCEPT !.manifest =
                     SourceAfterCall(mfArgs.manifest, mfArgs.targetBase,
                                     mfArgs.isDev, mfArgs.devServers)]
    /\ UNCHANGED notMf

NextManifest == TransformManifest

SpecManifest == InitManifest /\ [][NextManifest]_vars

\* The call of this behaviour has returned.
Returned == program = "manifest" /\ mfOut # <<>>

\* C5: for every source manifest and every mode, the firefox (Gecko) output has
\* manifest_version 2, no host_permissions value, and a permissions list that
\* contains every entry of the source's host_permissions and of its permissions.
C5_GeckoPermissions ==
    (Returned /\ mfArgs.targetBase = "firefox") =>
        LET out == mfOut[1]
            src == mfArgs.manifest
        IN /\ out.manifest_version = <<2>>
           /\ out.host_permissions = <<>>
           /\ out.permissions # <<>>
           /\ \A i \in 1..Len(OrEmpty(src.host_permissions)) :
                 Includes(out.permissions[1], src.host_permissions[1][i])
           /\ \A i \in 1..Len(OrEmpty(src.permissions)) :
                 Includes(out.permissions[1], src.permissions[1][i])

\* A firefox call in development with dev servers given, whose source lists two
\* host permissions and a permission, has returned.
C5_Witness ==
    /\ Returned
    /\ mfArgs.targetBase = "firefox"
    /\ mfArgs.isDev
    /\ mfArgs.devServers # <<>>
    /\ Len(OrEmpty(mfArgs.manifest.host_permissions)) = 2
    /\ Len(OrEmpty(mfArgs.manifest.permissions)) = 1
    /\ Len(mfOut[1].permissions[1]) = 4

\* C6: for every source manifest and every mode, the apple output does not list
\* "cookies" in optional_permissions and has no incognito value.
C6_AppleStrip ==
    (Returned /\ mfArgs.targetBase = "apple") =>
        /\ ~Includes(OrEmpty(mfOut[1].optional_permissions), "cookies")
        /\ mfOut[1].incognito = <<>>

\* An apple call whose source lists "cookies" next to another optional
\* permission and sets incognito has returned.
C6_Witness ==
    /\ Returned
    /\ mfArgs.targetBase = "apple"
    /\ Includes(OrEmpty(mfArgs.manifest.optional_permissions), "cookies")
    /\ Includes(OrEmpty(mfArgs.manifest.optional_permissions), "tabs")
    /\ mfArgs.manifest.incognito # <<>>
    /\ mfOut[1].optional_permissions = << <<"tabs">> >>

\* The resources of a web_accessible_resources value, in order: the firefox
\* output is already the flat list, the other families list groups.
ResourcesOf(war, targetBase) ==
    IF war = <<>> THEN <<>>
    ELSE IF targetBase = "firefox" THEN war[1] ELSE FlatResources(war[1])

\* C7: in a non-development build, for every family, the output's resources are
\* the source's without the entries ending in .map, no output group has an
\* empty resource list, and web_accessible_resources is absent when nothing is
\* left.
C7_SourceMapsDropped ==
    (Returned /\ ~mfArgs.isDev) =>
        LET out == mfOut[1].web_accessible_resources
            src == mfArgs.manifest.web_accessible_resources
            left == ResourcesOf(out, mfArgs.targetBase)
        IN /\ left = SelectSeq(FlatResources(OrEmpty(src)),
                               LAMBDA r : ~EndsWith(r, DotMap))
           /\ (out # <<>> /\ mfArgs.targetBase # "firefox") =>
                 \A i \in 1..Len(out[1]) : Len(out[1][i].resources) > 0
           /\ left = <<>> => out = <<>>

\* A non-development chromium call whose source has one group of source maps
\* only and one mixed group has returned the mixed group, filtered.
C7_Witness ==
    /\ Returned
    /\ ~mfArgs.isDev
    /\ mfArgs.targetBase = "chromium"
    /\ LET src == OrEmpty(mfArgs.manifest.web_accessible_resources)
           out == OrEmpty(mfOut[1].web_accessible_resources)
       IN /\ Len(src) = 2
          /\ Len(src[1].resources) > 0
          /\ \A i \in 1..Len(src[1].resources) : EndsWith(src[1].resources[i], DotMap)
          /\ Len(src[2].resources) = 2
          /\ Len(out) = 1
          /\ Len(out[1].resources) = 1

(***************************************************************************)
(* writeDNRRules (scripts/build.ts, lines 203-294).                        *)
(*                                                                         *)
(* A text is a sequence of pieces; the placeholders that                   *)
(* replaceTextVariable and the String.replace calls look for are pieces of *)
(* their own.  A security policy is the sequence of its tokens: directive  *)
(* names, source expressions, the blanks between them and the semicolons.  *)
(* A rule is a record of the emitted JSON object.                          *)
(***************************************************************************)
ROSEAL_TRACKING_HEADER_NAME == "_rosealRequest"
ROSEAL_OVERRIDE_PLATFORM_TYPE_HEADER_NAME == "_rosealPlatformType"
CONTENT_SECURITY_POLICY_HEADER_NAME == "content-security-policy"

\* getDomains: the entries that writeDNRRules and replaceTextVariable read.
getDomains(target, isDev, devServers) ==
    [ROBLOX_DOMAIN |-> <<"{service}", ".", "roblox.com">>,
     ROSEAL_WEBSITE_DOMAIN |->
         IF isDev /\ devServers.IS_DEV_WWW_ACCESSIBLE
         THEN "localhost:35922" ELSE "www.roseal.live",
     TWEMOJI_EMOJI_BASE_URL |-> "https://cdn.jsdelivr.net/gh/jdecked/twemoji@16.0.1/assets/",
     FLUENTUI_EMOJI_BASE_URL |->
         "https://cdn.jsdelivr.net/gh/RoSeal-Extension/fluentui-emoji@latest/export/"]

\* getUserAgentOverrides(robloxVersion = "0")
getUserAgentOverrides(robloxVersion) ==
    LET v == IF robloxVersion = <<>> THEN "0" ELSE robloxVersion[1]
    IN << [userAgent |-> <<"Roblox/WinInet RobloxApp/", v,
                           " (GlobalDist; RobloxDirectDownload)">>,
           platformType |-> "Desktop"],
          [userAgent |-> <<"Roblox/XboxOne ROBLOX Xbox App 1.0.0">>,
           platformType |-> "Console"],
          [userAgent |-> <<"(0MB; 0x0; 0x0; 0x0; ; 0) ROBLOX Android Tablet RobloxApp/", v,
                           " (GlobalDist; GooglePlayStore)">>,
           platformType |-> "Tablet"],
          [userAgent |-> <<"(0MB; 0x0; 0x0; 0x0; ; 0) ROBLOX Android Phone RobloxApp/", v,
                           " (GlobalDist; GooglePlayStore)">>,
           platformType |-> "Phone"],
          [userAgent |-> <<"(0MB; 0x0; 0x0; 0x0; oculus Oculus Questseacliff; 0) ROBLOX Android VR OculusQuest3Store RobloxApp/",
                           v, " (GlobalDist; OculusQuest3Store)">>,
           platformType |-> "VR"] >>

\* String.prototype.replace(pattern, by) with a pattern of several tokens: the
\* first occurrence only.
ReplaceFirstText(text, pattern, by) ==
    LET at == {i \in 1..(Len(text) - Len(pattern) + 1) :
                  SubSeq(text, i, i + Len(pattern) - 1) = pattern}
        first == CHOOSE i \in at : \A j \in at : i <= j
    IN IF at = {} THEN text
       ELSE SubSeq(text, 1, first - 1) \o by
               \o SubSeq(text, first + Len(pattern), Len(text))

\* "img-src 'self'", the text line 257 looks for.
ImgSrcSelf == <<"img-src", " ", "'self'">>

\* ROBLOX_DOMAIN.replace(/{service}\.?/, "")
WithoutService(domain) ==
    IF domain # <<>> /\ Head(domain) = "{service}"
    THEN IF Len(domain) > 1 /\ domain[2] = "." THEN SubSeq(domain, 3, Len(domain))
         ELSE Tail(domain)
    ELSE domain

\* The text a placeholder piece is replaced by, and any other piece itself.
ReplacePiece(piece, isDev, devServers, domains) ==
    CASE piece = "{ROSEAL_WWW_URL}" ->
            <<IF isDev /\ devServers.IS_DEV_WWW_ACCESSIBLE THEN "http" ELSE "https",
              "://", domains.ROSEAL_WEBSITE_DOMAIN>>
      [] piece = "{ROSEAL_TRACKING_HEADER_NAME}" -> <<ROSEAL_TRACKING_HEADER_NAME>>
      [] piece = "{ROBLOX_DOMAIN('www')}" ->
            ReplaceFirst(domains.ROBLOX_DOMAIN, "{service}", "www")
      [] OTHER -> <<piece>>

\* replaceTextVariable on one string of the serialized text.
RECURSIVE ReplaceText(_, _, _, _)
ReplaceText(text, isDev, devServers, domains) ==
    IF text = <<>> THEN <<>>
    ELSE ReplacePiece(Head(text), isDev, devServers, domains)
            \o ReplaceText(Tail(text), isDev, devServers, domains)

\* replaceTextVariable(target, JSON.stringify(rules), isDev, devServers): the
\* patterns match inside the strings of the text; numbers are left as written.
replaceTextVariable(target, rules, isDev, devServers) ==
    LET domains == getDomains(target, isDev, devServers)
    IN [i \in 1..Len(rules) |->
           [rules[i] EXCEPT
               !.value = ReplaceText(@, isDev, devServers, domains),
               !.urlFilter = ReplaceText(@, isDev, devServers, domains)]]

\* idx++: the value the expression yields and the value idx holds afterwards.
PostIncrementMutant(idx) == [value |-> idx + 1, idx |-> idx + 1]
PostIncrement(idx) == [value |-> idx, idx |-> idx + 1]

\* lines 229-248: userAgentOverrides.map, calling back in array order; the
\* result holds the rules and the idx left behind.
RECURSIVE UserAgentRules(_, _, _, _)
UserAgentRules(items, idx, appendString, domain) ==
    IF items = <<>> THEN [rules |-> <<>>, idx |-> idx]
    ELSE LET inc == PostIncrement(idx)
             rest == UserAgentRules(Tail(items), inc.idx, appendString, domain)
         IN [rules |->
               <<[id |-> inc.value,
                  priority |-> 1,
                  type |-> "modifyHeaders",
                  headers |-> "requestHeaders",
                  header |-> "user-agent",
                  operation |-> "set",
                  value |-> Head(items).userAgent \o <<" ">> \o appendString,
                  urlFilter |-> <<"||">> \o WithoutService(domain)
                                  \o <<"/*", ROSEAL_OVERRIDE_PLATFORM_TYPE_HEADER_NAME,
                                       "=", Head(items).platformType>>,
                  resourceTypes |-> <<"xmlhttprequest">>]>> \o rest.rules,
             idx |-> rest.idx]

\* lines 222-288: the array handed to JSON.stringify.
DNRRules(target, isDev, version, devServers, robloxVersion, cspPolicy) ==
    LET domains == getDomains(target, isDev, devServers)
        userAgentOverrides == getUserAgentOverrides(robloxVersion)
        appendString == <<"RoSealExtension (RoSeal/", target, "/", version, "/",
                          IF isDev THEN "dev" ELSE "prod", ")">>
        ua == UserAgentRules(userAgentOverrides, STATIC_RULES_START_ID,
                             appendString, domains.ROBLOX_DOMAIN)
        csp == PostIncrement(ua.idx)
        tracking == PostIncrement(csp.idx)
    IN ua.rules \o
       <<[id |-> csp.value,
          priority |-> 1,
          type |-> "modifyHeaders",
          headers |-> "responseHeaders",
          header |-> CONTENT_SECURITY_POLICY_HEADER_NAME,
          operation |-> "set",
          value |-> ReplaceFirstText(cspPolicy, ImgSrcSelf,
                                     ImgSrcSelf \o <<" ", domains.TWEMOJI_EMOJI_BASE_URL,
                                                    " ", domains.FLUENTUI_EMOJI_BASE_URL>>),
          urlFilter |-> <<"||">> \o ReplaceFirst(domains.ROBLOX_DOMAIN, "{service}", "www")
                          \o <<"/*">>,
          resourceTypes |-> <<"main_frame", "sub_frame">>],
         [id |-> tracking.value,
          priority |-> 1,
          type |-> "modifyHeaders",
          headers |-> "requestHeaders",
          header |-> "user-agent",
          operation |-> "append",
          value |-> appendString,
          urlFilter |-> <<"||">> \o WithoutService(domains.ROBLOX_DOMAIN)
                          \o <<"/*", ROSEAL_TRACKING_HEADER_NAME>>,
          resourceTypes |-> <<"xmlhttprequest">>]>>

(***************************************************************************)
(* Program "dnr": one call of writeDNRRules.                               *)
(***************************************************************************)
MaxStartId == 3

Versions == {"2.1.0", "{ROSEAL_WWW_URL}"}
RobloxVersions == Opt({"0.650.0.6500742"})

\* The content-security-policy header of the fetched page: absent (""), without
\* an img-src directive, with one that lists 'self' first, with two, and with
\* one that lists 'self' after another source or not at all.
CspPolicies ==
    {<<>>,
     <<"default-src", " ", "'self'">>,
     <<"default-src", " ", "'self'", ";", " ", "img-src", " ", "'self'", " ", "data:">>,
     <<"img-src", " ", "'self'", ";", " ", "img-src", " ", "'self'", " ", "blob:">>,
     <<"default-src", " ", "'none'", ";", " ", "img-src", " ", "data:", " ", "'self'">>,
     <<"img-src", " ", "https:", ";", " ", "script-src", " ", "'self'">>}

InitDNR ==
    /\ program = "dnr"
    /\ IdleRest
    /\ IdleBuild
    /\ IdleDriver
    /\ IdleDev
    /\ IdleMf
    /\ IdleI18n
    /\ STATIC_RULES_START_ID \in 1..MaxStartId
    /\ dnrArgs \in [target : TARGETS, isDev : BOOLEAN, version : Versions,
                    devServers : {d[1] : d \in DevServersCases \ {<<>>}},
                    robloxVersion : RobloxVersions, cspPolicy : CspPolicies]
    /\ dnrOut = <<>>

\* The file dnr_rules.json is written.
WriteDNRRules ==
    /\ program = "dnr"
    /\ dnrOut = <<>>
    /\ dnrOut' = <<replaceTextVariable(
                      dnrArgs.target,
                      DNRRules(dnrArgs.target, dnrArgs.isDev, dnrArgs.version,
                               dnrArgs.devServers, dnrArgs.robloxVersion,
                               dnrArgs.cspPolicy),
                      dnrArgs.isDev, dnrArgs.devServers)>>
    /\ UNCHANGED <<notDnr, STATIC_RULES_START_ID, dnrArgs>>

NextDNR == WriteDNRRules

SpecDNR == InitDNR /\ [][NextDNR]_vars

\* C8: for any target, mode, version and security policy, the rule at array
\* index i (counted from 0) of the emitted array has id STATIC_RULES_START_ID + i:
\* the ids increase by one from the start id, with no gap and no duplicate.
C8_SequentialRuleIds ==
    (program = "dnr" /\ dnrOut # <<>>) =>
        \A i \in 1..Len(dnrOut[1]) : dnrOut[1][i].id = STATIC_RULES_START_ID + (i - 1)

\* The seven rules have been written with a start id other than the first one
\* and a policy in which the img-src directive was rewritten.
C8_Witness ==
    /\ program = "dnr"
    /\ dnrOut # <<>>
    /\ STATIC_RULES_START_ID > 1
    /\ Len(dnrOut[1]) = 7
    /\ dnrOut[1][6].header = CONTENT_SECURITY_POLICY_HEADER_NAME
    /\ dnrOut[1][6].value # dnrArgs.cspPolicy
    /\ dnrOut[1][7].id = STATIC_RULES_START_ID + 6

(***************************************************************************)
(* handleI18NNamespace (scripts/build/utils.ts, lines 361-433).            *)
(*                                                                         *)
(* A parsed JSON object is the sequence of its entries, in key order; an   *)
(* entry is [key, val], the key a character sequence, and a value is a     *)
(* string, an array of strings or an object (kids: its entries).  The      *)
(* $types, $message and $context properties of a node are entries of its   *)
(* object like any other.  The transform map is the sequence of its        *)
(* entries in insertion order.                                             *)
(***************************************************************************)
Str(s) == [kind |-> "string", str |-> s, arr |-> <<>>, kids |-> <<>>]
Arr(a) == [kind |-> "array", str |-> "", arr |-> a, kids |-> <<>>]
Obj(k) == [kind |-> "object", str |-> "", arr |-> <<>>, kids |-> k]
Entry(k, v) == [key |-> k, val |-> v]

\* A $context string, which the code concatenates: its characters.
Chars(c) == [kind |-> "string", str |-> "", arr |-> c, kids |-> <<>>]

TypesKey == <<"$", "t", "y", "p", "e", "s">>
MessageKey == <<"$", "m", "e", "s", "s", "a", "g", "e">>
ContextKey == <<"$", "c", "o", "n", "t", "e", "x", "t">>

\* value[key]: the property, or undefined
GetProp(entries, key) ==
    IF \E i \in 1..Len(entries) : entries[i].key = key
    THEN <<entries[CHOOSE i \in 1..Len(entries) : entries[i].key = key].val>>
    ELSE <<>>

\* String.prototype.startsWith
StartsWith(str, prefix) ==
    /\ Len(str) >= Len(prefix)
    /\ SubSeq(str, 1, Len(prefix)) = prefix

\* String.prototype.replaceAll on single characters
ReplaceAllMutant(str, from, to) == ReplaceFirst(str, from, to)
ReplaceAll(str, from, to) ==
    [i \in 1..Len(str) |-> IF str[i] = from THEN to ELSE str[i]]

\* a.some((x) => b.includes(x))
SomeIncluded(a, b) == \E i \in 1..Len(a) : Includes(b, a[i])

\* transform[key], and the index it sits at
HasKey(transform, key) == \E i \in 1..Len(transform) : transform[i].key = key
IndexOfKey(transform, key) == CHOOSE i \in 1..Len(transform) : transform[i].key = key

\* transform[key] = entry: an existing key keeps its place.
Put(transform, key, entry) ==
    IF HasKey(transform, key)
    THEN [transform EXCEPT ![IndexOfKey(transform, key)] = entry]
    ELSE Append(transform, entry)

\* lines 374-378: the key a message is stored under.
SetKey(types, namespace, key) ==
    LET setKey == IF namespace # <<>> /\ namespace[1] # <<>>
                  THEN namespace[1] \o <<".">> \o key
                  ELSE key
    IN IF types # <<>> /\ Includes(types[1], "manifest") /\ Len(types[1]) = 1
       THEN ReplaceAll(setKey, ".", "_")
       ELSE setKey

\* value.$types, value.$message, value.$context
TypesOf(value) == LET p == GetProp(value.kids, TypesKey) IN IF p = <<>> THEN <<>> ELSE <<p[1].arr>>
MessageOf(value) == LET p == GetProp(value.kids, MessageKey) IN IF p = <<>> THEN <<>> ELSE <<p[1].str>>
ContextOf(value) == LET p == GetProp(value.kids, ContextKey) IN IF p = <<>> THEN <<>> ELSE <<p[1].arr>>

\* lines 405-411: the condition under which an object node is passed over.
\* hasTransform says whether the call was given _transform.
SkipNodeMutant(value, types, hasTransform) ==
    /\ types # <<>>
    /\ ~SomeIncluded(IF TypesOf(value) = <<>> THEN <<"main">> ELSE TypesOf(value)[1], types[1])
    /\ (TypesOf(value) # <<>> \/ hasTransform)
SkipNode(value, types, hasTransform) ==
    /\ types # <<>>
    /\ ~SomeIncluded(IF TypesOf(value) = <<>> THEN <<"main">> ELSE TypesOf(value)[1], types[1])
    /\ (TypesOf(value) # <<>> \/ ~hasTransform)

\* `${currentContext ? `${currentContext}; ` : ""}${own}`
JoinContext(currentContext, own) ==
    IF currentContext # <<>> /\ currentContext[1] # <<>>
    THEN currentContext[1] \o <<";", " ">> \o own
    ELSE own

\* lines 413-421: what an object node with a non-empty $message stores.
StoreMessage(transform, setKey, key, value, includeContext, currentContext) ==
    IF MessageOf(value) = <<>> \/ MessageOf(value)[1] = "" THEN transform
    ELSE LET old == IF HasKey(transform, setKey)
                    THEN transform[IndexOfKey(transform, setKey)]
                    ELSE [key |-> setKey, message |-> <<>>, context |-> <<>>]
             own == IF ContextOf(value) # <<>> /\ ContextOf(value)[1] # <<>>
                    THEN ContextOf(value)[1] ELSE key
         IN Put(transform, setKey,
                [old EXCEPT !.message = MessageOf(value),
                            !.context = IF includeContext
                                        THEN <<JoinContext(currentContext, own)>>
                                        ELSE @])

\* lines 423-426: the context handed to the recursive call.
NextContext(key, value, includeContext, currentContext) ==
    IF includeContext
    THEN <<JoinContext(currentContext,
                       IF ContextOf(value) # <<>> THEN ContextOf(value)[1] ELSE key)>>
    ELSE <<>>

RECURSIVE handleI18NNamespace(_, _, _, _, _, _)
RECURSIVE ForKeyIn(_, _, _, _, _, _, _)

\* lines 372-430: the loop over the keys of data, from the given entry on;
\* transform is the map as the iterations so far have left it.
ForKeyIn(entries, types, namespace, hasTransform, transform, includeContext, currentContext) ==
    IF entries = <<>> THEN transform
    ELSE LET key == Head(entries).key
             value == Head(entries).val
             setKey == SetKey(types, namespace, key)
             after ==
                 IF StartsWith(key, <<"$">>) THEN transform
                 ELSE IF value.kind = "string"
                 THEN IF value.str = "" THEN transform
                      ELSE Put(transform, setKey,
                               [key |-> setKey, message |-> <<value.str>>, context |-> <<>>])
                 ELSE IF SkipNode(value, types, hasTransform) THEN transform
                 ELSE handleI18NNamespace(
                          value.kids, types, <<setKey>>,
                          <<StoreMessage(transform, setKey, key, value,
                                         includeContext, currentContext)>>,
                          includeContext,
                          NextContext(key, value, includeContext, currentContext))
         IN ForKeyIn(Tail(entries), types, namespace, hasTransform, after,
                     includeContext, currentContext)

\* The map is shared by reference: the recursive calls fill the one of their
\* caller, and the call returns it.
handleI18NNamespace(data, types, namespace, _transform, includeContext, currentContext) ==
    ForKeyIn(data, types, namespace, _transform # <<>>, OrEmpty(_transform),
             includeContext, currentContext)

(***************************************************************************)
(* Program "i18n": one call of handleI18NNamespace on a locale file, as    *)
(* writeI18n, getI18nTypesFile and getI18nExport make it.  A locale file   *)
(* has a node "a" holding a node "b" or a string "b", a string with a      *)
(* dotted key and a $schema entry.                                         *)
(***************************************************************************)
TagSets == {<<>>, <<"main">>, <<"manifest">>, <<"popup">>, <<"manifest", "popup">>}

RequestedTypes ==
    Opt({<<"main">>, <<"manifest">>, <<"manifest", "popup">>,
         <<"main", "inject", "popup", "background">>})

OptEntry(key, opt) == IF opt = <<>> THEN <<>> ELSE <<Entry(key, opt[1])>>

NestedNodes ==
    {Obj(OptEntry(TypesKey, tags) \o OptEntry(MessageKey, msg)
           \o <<Entry(<<"t">>, Str("Deep"))>>) :
        tags \in Opt({Arr(t) : t \in TagSets}),
        msg \in Opt({Str("Inner")})}

TopNodes ==
    {Obj(OptEntry(TypesKey, tags) \o OptEntry(MessageKey, msg)
           \o OptEntry(ContextKey, ctx) \o OptEntry(<<"b">>, kid)) :
        tags \in Opt({Arr(t) : t \in TagSets}),
        msg \in Opt({Str(""), Str("Outer")}),
        ctx \in Opt({Chars(<<>>), Chars(<<"C", "t", "x">>)}),
        kid \in Opt(NestedNodes \cup {Str("Hello {name}")})}

LocaleFiles ==
    {OptEntry(<<"$", "s", "c", "h", "e", "m", "a">>, schema) \o <<Entry(<<"a">>, top)>>
           \o OptEntry(<<"x", ".", "y", ".", "z">>, flat) :
        schema \in Opt({Str("messages.schema.json")}),
        top \in TopNodes,
        flat \in Opt({Str(""), Str("Flat")})}

InitI18n ==
    /\ program = "i18n"
    /\ IdleRest
    /\ IdleBuild
    /\ IdleDriver
    /\ IdleDev
    /\ IdleMf
    /\ IdleDnr
    /\ i18nArgs \in [data : LocaleFiles, types : RequestedTypes, includeContext : BOOLEAN]
    /\ i18nOut = <<>>

\* The call returns the map it filled.
HandleI18NNamespace ==
    /\ program = "i18n"
    /\ i18nOut = <<>>
    /\ i18nOut' = <<handleI18NNamespace(i18nArgs.data, i18nArgs.types, <<>>, <<>>,
                                        i18nArgs.includeContext, <<>>)>>
    /\ UNCHANGED <<notI18n, i18nArgs>>

NextI18n == HandleI18NNamespace

SpecI18n == InitI18n /\ [][NextI18n]_vars

\* The call of this behaviour has returned.
Extracted == program = "i18n" /\ i18nOut # <<>>

\* The object-valued entries of an object, the $ properties aside.
ObjectEntries(entries) ==
    SelectSeq(entries, LAMBDA e : ~StartsWith(e.key, <<"$">>) /\ e.val.kind = "object")

\* The node declares $types; its $types intersect the requested profiles.
Declares(value) == TypesOf(value) # <<>>
Matches(value) == Declares(value) /\ SomeIncluded(TypesOf(value)[1], i18nArgs.types[1])

\* The node has a message of its own to show for its inclusion: a non-empty
\* $message or a non-empty string entry.
Visible(value) ==
    \/ MessageOf(value) # <<>> /\ MessageOf(value)[1] # ""
    \/ \E i \in 1..Len(value.kids) :
          /\ ~StartsWith(value.kids[i].key, <<"$">>)
          /\ value.kids[i].val.kind = "string"
          /\ value.kids[i].val.str # ""

\* The returned map holds a message stored under the node's key or below it.
Included(key) ==
    \E i \in 1..Len(i18nOut[1]) :
        LET k == i18nOut[1][i].key
        IN \/ k = key
           \/ /\ Len(k) > Len(key)
              /\ SubSeq(k, 1, Len(key)) = key
              /\ k[Len(key) + 1] \in {".", "_"}

TopKey(e) == SetKey(i18nArgs.types, <<>>, e.key)
NestedKey(e, n) == SetKey(i18nArgs.types, <<TopKey(e)>>, n.key)

Untagged(data) ==
    LET tops == ObjectEntries(data)
    IN \A i \in 1..Len(tops) :
          /\ ~Declares(tops[i].val)
          /\ LET kids == ObjectEntries(tops[i].val.kids)
             IN \A j \in 1..Len(kids) : ~Declares(kids[j].val)

Underscored(key) == [i \in 1..Len(key) |-> IF key[i] = "." THEN "_" ELSE key[i]]

\* The map with every key's dots replaced by underscores.
RECURSIVE RewriteKeys(_, _)
RewriteKeys(done, todo) ==
    IF todo = <<>> THEN done
    ELSE RewriteKeys(Put(done, Underscored(Head(todo).key),
                         [Head(todo) EXCEPT !.key = Underscored(@)]),
                     Tail(todo))

\* What the call returns for the same file when asked for profile main.
UnderMain(data) ==
    handleI18NNamespace(data, << <<"main">> >>, <<>>, <<>>, i18nArgs.includeContext, <<>>)

CodeUnit(c) ==
    CASE c = "$" -> 36 [] c = "+" -> 43 [] c = "," -> 44 [] c = "." -> 46
      [] c = "_" -> 95 [] c = "a" -> 97 [] c = "b" -> 98 [] c = "c" -> 99
      [] c = "e" -> 101 [] c = "f" -> 102 [] c = "n" -> 110 [] c = "o" -> 111
      [] c = "r" -> 114 [] c = "t" -> 116 [] c = "x" -> 120

\* s < t for two strings: the comparison of their code units, in order.
LessText(s, t) ==
    \E i \in 1..(Len(s) + 1) :
        /\ i <= Len(t)
        /\ SubSeq(s, 1, i - 1) = SubSeq(t, 1, i - 1)
        /\ (i > Len(s) \/ CodeUnit(s[i]) < CodeUnit(t[i]))

\* The string Array.prototype.sort() compares an entry [key, value] by:
\* String([key, value]) is the key, a comma and the text of the value.  For
\* keys without a comma two entries with different keys differ at the comma
\* at the latest.
EntryText(entry) == entry.key \o <<",">>

\* Array.prototype.sort() without a comparator, by insertion: an element goes
\* after the ones whose text is not greater (the sort is stable).
SortInsert(sorted, x) ==
    LET k == Cardinality({i \in 1..Len(sorted) :
                             ~LessText(EntryText(x), EntryText(sorted[i]))})
    IN SubSeq(sorted, 1, k) \o <<x>> \o SubSeq(sorted, k + 1, Len(sorted))

RECURSIVE SortEntries(_)
SortEntries(entries) ==
    IF entries = <<>> THEN <<>>
    ELSE SortInsert(SortEntries(SubSeq(entries, 1, Len(entries) - 1)),
                    entries[Len(entries)])

\* lines 462-467: one key of extractedData is merged into contents.
MergeKey(contents, e, localeName, includeContext) ==
    LET c0 == IF HasKey(contents, e.key) THEN contents
              ELSE Append(contents, [key |-> e.key, subs |-> <<>>])
        i == IndexOfKey(c0, e.key)
        s1 == IF includeContext
              THEN Put(c0[i].subs, ContextKey, [key |-> ContextKey, value |-> e.context])
              ELSE c0[i].subs
        s2 == IF e.message # <<>> /\ e.message[1] # ""
              THEN Put(s1, localeName, [key |-> localeName, value |-> e.message])
              ELSE s1
    IN [c0 EXCEPT ![i].subs = s2]

RECURSIVE MergeKeys(_, _, _, _)
MergeKeys(contents, extractedData, localeName, includeContext) ==
    IF extractedData = <<>> THEN contents
    ELSE MergeKeys(MergeKey(contents, Head(extractedData), localeName, includeContext),
                   Tail(extractedData), localeName, includeContext)

\* lines 445-468: the loop over the locale files, in the order walk() yields them.
RECURSIVE WalkLocales(_, _, _, _, _)
WalkLocales(contents, order, files, entrypoints, includeContext) ==
    IF order = <<>> THEN contents
    ELSE WalkLocales(
            MergeKeys(contents,
                      handleI18NNamespace(files[Head(order)], <<entrypoints>>, <<>>, <<>>,
                                          includeContext, <<>>),
                      Head(order), includeContext),
            Tail(order), files, entrypoints, includeContext)

getI18nExport(files, order, entrypoints, includeContext) ==
    LET contents == WalkLocales(<<>>, order, files, entrypoints, includeContext)
        sortedSubs == [i \in 1..Len(contents) |->
                          [contents[i] EXCEPT !.subs = SortEntries(@)]]
    IN [contents |-> SortEntries(sortedSubs), supportedLocales |-> order]

(***************************************************************************)
(* Program "export": one call of getI18nExport over two locale             *)
(* directories.                                                            *)
(***************************************************************************)
MaxKeys == 2

Locales == {<<"e", "n">>, <<"f", "r">>}

\* The orders walk() can yield the locale files in.
WalkOrders ==
    {o \in [1..Cardinality(Locales) -> Locales] : \A l \in Locales : Includes(o, l)}

ExportEntries ==
    {Entry(k, Str(m)) : k \in {<<"a">>, <<"a", "+">>, <<"b">>}, m \in {"Hi", "Salut"}}
        \cup {Entry(<<"a">>, Obj(<<Entry(<<"b">>, Str("Hi"))>>))}

\* A parsed file has no key twice.
ExportFiles ==
    {f \in SeqsUpTo(ExportEntries, MaxKeys) :
        \A i \in 1..Len(f), j \in 1..Len(f) : f[i].key = f[j].key => i = j}

InitExport ==
    /\ program = "export"
    /\ IdleBuild
    /\ IdleDriver
    /\ IdleDev
    /\ IdleMf
    /\ IdleDnr
    /\ IdleI18n
    /\ IdleCache
    /\ IdleLate
    /\ exArgs \in [files : [Locales -> ExportFiles], order : WalkOrders,
                   entrypoints : {<<"main">>, <<"popup">>}, includeContext : BOOLEAN]
    /\ exOut = <<>>

\* The call returns { contents, supportedLocales }.
GetI18nExport ==
    /\ program = "export"
    /\ exOut = <<>>
    /\ exOut' = <<getI18nExport(exArgs.files, exArgs.order, exArgs.entrypoints,
                                exArgs.includeContext)>>
    /\ UNCHANGED <<notEx, exArgs>>

NextExport == GetI18nExport

SpecExport == InitExport /\ [][NextExport]_vars

\* What handleI18NNamespace extracts from the file of one locale.
ExtractedFor(l) ==
    handleI18NNamespace(exArgs.files[l], <<exArgs.entrypoints>>, <<>>, <<>>,
                        exArgs.includeContext, <<>>)

\* The result has one entry per extracted key.
OneEntryPerKey ==
    LET contents == exOut[1].contents
    IN /\ \A i \in 1..Len(contents), j \in 1..Len(contents) :
             contents[i].key = contents[j].key => i = j
       /\ \A i \in 1..Len(contents) :
             \E l \in Locales : HasKey(ExtractedFor(l), contents[i].key)
       /\ \A l \in Locales : \A i \in 1..Len(ExtractedFor(l)) :
             HasKey(contents, ExtractedFor(l)[i].key)

\* An entry has a sub-entry for exactly the locales with a message for its key,
\* holding that message.
OneSubEntryPerLocale ==
    LET contents == exOut[1].contents
    IN \A i \in 1..Len(contents) : \A l \in Locales :
          IF HasKey(ExtractedFor(l), contents[i].key)
          THEN /\ HasKey(contents[i].subs, l)
               /\ contents[i].subs[IndexOfKey(contents[i].subs, l)].value =
                     ExtractedFor(l)[IndexOfKey(ExtractedFor(l), contents[i].key)].message
          ELSE ~HasKey(contents[i].subs, l)

\* The keys of the result are in ascending lexicographic order.
KeysAscending ==
    LET contents == exOut[1].contents
    IN \A i \in 1..Len(contents), j \in 1..Len(contents) :
          i < j => LessText(contents[i].key, contents[j].key)

\* C11: getI18nExport returns one entry per extracted key, with one sub-entry
\* for each locale that has a message for the key and none for the others, and
\* the keys of the result are in ascending lexicographic order, whatever order
\* the locale files were visited in.
C11_OneEntryPerKeyAscending ==
    (program = "export" /\ exOut # <<>>) =>
        (OneEntryPerKey /\ OneSubEntryPerLocale /\ KeysAscending)

(***************************************************************************)
(* getBuildTimeParams and the source-snapshot script                       *)
(* (scripts/build/utils.ts, lines 582-628).                                *)
(*                                                                         *)
(* cacheFile is ./cachedBuildTime.json: <<>> when the file does not exist, *)
(* <<text>> when it does; a text is the sequence of the <<key, value>>     *)
(* pairs JSON.stringify writes.  calls records every call of               *)
(* getBuildTimeParams; snap is <<>> while no snapshot run was started and  *)
(* <<[pc, params]>> otherwise.                                             *)
(***************************************************************************)
\* clientVersion.version and the content-security-policy header (?? "").
BuildTimeParams == [robloxVersion : {"0.650", "0.651"}, cspPolicy : {"", "default-src"}]

\* JSON.stringify(buildTimeParams)
Stringify(params) ==
    <<<<"robloxVersion", params.robloxVersion>>, <<"cspPolicy", params.cspPolicy>>>>

\* The value of one key of a JSON text.
Field(text, key) == text[CHOOSE i \in 1..Len(text) : text[i][1] = key][2]

\* cachedBuildTime.json()
ParseJSON(text) ==
    [robloxVersion |-> Field(text, "robloxVersion"), cspPolicy |-> Field(text, "cspPolicy")]

\* line 587: await cachedBuildTime.exists()
CacheExistsMutant(file) == FALSE
CacheExists(file) == file # <<>>

\* lines 582-604: the value returned and the number of network requests made,
\* net being what the two requests answer.
getBuildTimeParams(file, net) ==
    IF CacheExists(file) THEN [value |-> ParseJSON(file[1]), requests |-> 0]
    ELSE [value |-> net, requests |-> 2]

\* lines 582-604: the cache file after a call; the function never writes it.
CacheAfterCallMutant(file, value) == IF file = <<>> THEN <<Stringify(value)>> ELSE file
CacheAfterCall(file, value) == file

\* The call record of one call of getBuildTimeParams.
CallRecord(by, file, net) ==
    LET r == getBuildTimeParams(file, net)
    IN [by |-> by, before |-> file, value |-> r.value, requests |-> r.requests,
        after |-> CacheAfterCall(file, r.value)]

\* The entry points that call getBuildTimeParams for a build session:
\* part_002 line 678, dev.ts line 47, buildRedistribution.ts line 19.
EntryPoints == {"build", "dev", "driver"}

MaxCalls == 2

InitCache ==
    /\ program = "cache"
    /\ IdleBuild
    /\ IdleDriver
    /\ IdleDev
    /\ IdleMf
    /\ IdleDnr
    /\ IdleI18n
    /\ IdleEx
    /\ IdleLate
    /\ cacheFile \in {<<>>} \cup {<<Stringify(p)>> : p \in BuildTimeParams}
    /\ calls = <<>>
    /\ snap = <<>>

\* A snapshot run is between its first and its last statement.
SnapRunning == snap # <<>> /\ snap[1].pc \in {"write", "zip", "delete"}

\* An entry point starts a build session: it calls getBuildTimeParams once and
\* hands the value to its builds.
EntryCall(by, net) ==
    /\ program = "cache"
    /\ Len(calls) < MaxCalls
    /\ LET c == CallRecord(by, cacheFile, net)
       IN /\ calls' = Append(calls, c)
          /\ cacheFile' = c.after
    /\ UNCHANGED <<notCache, snap>>

\* lines 606-616: the snapshot script up to its getBuildTimeParams call.
SnapStart(net) ==
    /\ program = "cache"
    /\ ~SnapRunning
    /\ Len(calls) < MaxCalls
    /\ LET c == CallRecord("snapshot", cacheFile, net)
       IN /\ calls' = Append(calls, c)
          /\ cacheFile' = c.after
          /\ snap' = <<[pc |-> "write", params |-> c.value]>>
    /\ UNCHANGED notCache

\* lines 619-620: cachedBuildTime.write(JSON.stringify(buildTimeParams))
SnapWrite ==
    /\ program = "cache"
    /\ snap # <<>>
    /\ snap[1].pc = "write"
    /\ cacheFile' = <<Stringify(snap[1].params)>>
    /\ snap' = <<[snap[1] EXCEPT !.pc = "zip"]>>
    /\ UNCHANGED <<notCache, calls>>

\* lines 622-626: the zip command.  Bun.$ throws when the command exits with a
\* code other than 0, which ends the script at the awaited command.
SnapZip(ok) ==
    /\ program = "cache"
    /\ snap # <<>>
    /\ snap[1].pc = "zip"
    /\ snap' = <<[snap[1] EXCEPT !.pc = IF ok THEN "delete" ELSE "failed"]>>
    /\ UNCHANGED <<notCache, cacheFile, calls>>

\* line 628: await cachedBuildTime.delete()
SnapDelete ==
    /\ program = "cache"
    /\ snap # <<>>
    /\ snap[1].pc = "delete"
    /\ cacheFile' = <<>>
    /\ snap' = <<[snap[1] EXCEPT !.pc = "done"]>>
    /\ UNCHANGED <<notCache, calls>>

NextCache ==
    \/ \E by \in EntryPoints, net \in BuildTimeParams : EntryCall(by, net)
    \/ \E net \in BuildTimeParams : SnapStart(net)
    \/ SnapWrite
    \/ \E ok \in BOOLEAN : SnapZip(ok)
    \/ SnapDelete

SpecCache == InitCache /\ [][NextCache]_vars

\* C12: when cachedBuildTime.json exists, getBuildTimeParams returns its
\* contents verbatim and makes no network request.
C12_CachedValueNoNetwork ==
    program = "cache" =>
        \A i \in 1..Len(calls) :
            calls[i].before # <<>> =>
                /\ Stringify(calls[i].value) = calls[i].before[1]
                /\ calls[i].requests = 0

\* A call found the cache file holding other values than the network answers
\* at that time would give.
C12_Witness ==
    /\ program = "cache"
    /\ \E i \in 1..Len(calls) :
          /\ calls[i].before = <<Stringify([robloxVersion |-> "0.650", cspPolicy |-> ""])>>
          /\ calls[i].by = "build"
          /\ calls[i].requests = 0

SnapEnded == snap # <<>> /\ snap[1].pc \in {"done", "failed"}

\* C14: after a source-snapshot run has ended, on any path through it,
\* cachedBuildTime.json does not exist.
C14_NoCacheAfterSnapshot ==
    (program = "cache" /\ SnapEnded) => cacheFile = <<>>

(***************************************************************************)
(* transformManifest: the localhost wildcard, the gecko identity block and *)
(* the source object (SpecManifest).                                       *)
(***************************************************************************)
\* The host patterns of a returned manifest: host_permissions, or for the
\* firefox family the patterns that lead its permissions.
HostsOut(out) ==
    IF mfArgs.targetBase = "firefox"
    THEN SubSeq(out.permissions[1], 1,
                Len(out.permissions[1]) - Len(OrEmpty(mfArgs.manifest.permissions)))
    ELSE OrEmpty(out.host_permissions)

\* The result has the wildcard after the host patterns of the source.
LocalhostAppended ==
    HostsOut(mfOut[1]) = Append(OrEmpty(mfArgs.manifest.host_permissions), "*://localhost/*")

\* The result has the host patterns of the source and nothing more.
LocalhostNotAppended ==
    HostsOut(mfOut[1]) = OrEmpty(mfArgs.manifest.host_permissions)

\* C15 as stated: the localhost wildcard is appended exactly when
\* IS_DEV_API_ACCESSIBLE is true, and not appended when the API dev server is
\* not reachable.
C15_LocalhostIffApiAccessible ==
    Returned =>
        IF mfArgs.devServers # <<>> /\ mfArgs.devServers[1].IS_DEV_API_ACCESSIBLE
        THEN LocalhostAppended
        ELSE LocalhostNotAppended

\* C15 amended: the localhost wildcard is appended exactly when the build is a
\* development build and a reachability record was passed, whatever the record
\* says about the API dev server.
C15_LocalhostIffDevBuild ==
    Returned =>
        IF mfArgs.isDev /\ mfArgs.devServers # <<>>
        THEN LocalhostAppended
        ELSE LocalhostNotAppended

\* A development build whose API dev server is not reachable still gets the
\* wildcard.
C15_Witness ==
    /\ Returned
    /\ mfArgs.isDev
    /\ mfArgs.targetBase = "chromium"
    /\ mfArgs.devServers # <<>>
    /\ ~mfArgs.devServers[1].IS_DEV_API_ACCESSIBLE
    /\ mfArgs.manifest.host_permissions = << <<"*://example.com/*">> >>
    /\ mfOut[1].host_permissions = << <<"*://example.com/*", "*://localhost/*">> >>

\* The source defines per-family settings for firefox.
HasFirefoxSettings ==
    /\ mfArgs.manifest.browser_specific_settings # <<>>
    /\ mfArgs.manifest.browser_specific_settings[1].firefox # <<>>

SourceFirefox == mfArgs.manifest.browser_specific_settings[1].firefox[1]

\* The gecko identity block of the result, <<>> when there is none.
GeckoOut == Chain(mfOut[1].browser_specific_settings, "gecko")

\* A production build of a manifest that is not flagged beta, for the Gecko family.
ProductionNonBeta ==
    /\ Returned
    /\ mfArgs.targetBase = "firefox"
    /\ ~mfArgs.isDev
    /\ mfArgs.manifest.beta # <<TRUE>>
    /\ HasFirefoxSettings

\* C16 as stated: a production, non-beta Gecko build has a gecko identity
\* block with no id, even when the source settings define one.
C16_ProductionOmitsId ==
    ProductionNonBeta => (GeckoOut # <<>> /\ GeckoOut[1].id = <<>>)

\* C16 amended: a production, non-beta Gecko build has a gecko identity block
\* whose id is the id of the source firefox settings, absent only when the
\* source defines none.
C16_ProductionKeepsSourceId ==
    ProductionNonBeta => (GeckoOut # <<>> /\ GeckoOut[1].id = SourceFirefox.id)

\* A production, non-beta build whose source defines both ids gets the plain one.
C16_Witness ==
    /\ ProductionNonBeta
    /\ SourceFirefox.id = <<"roseal@id">>
    /\ SourceFirefox.beta_id = <<"roseal-beta@id">>
    /\ GeckoOut[1].id = <<"roseal@id">>

\* C17: in a beta, non-development Gecko build the gecko identity block has
\* id = source firefox.beta_id and update_url = source firefox.beta_update_url;
\* with beta_id missing the block is still produced, its id absent.
C17_BetaPair ==
    (/\ Returned
     /\ mfArgs.targetBase = "firefox"
     /\ ~mfArgs.isDev
     /\ mfArgs.manifest.beta = <<TRUE>>
     /\ HasFirefoxSettings) =>
        /\ GeckoOut # <<>>
        /\ GeckoOut[1].id = SourceFirefox.beta_id
        /\ GeckoOut[1].update_url = SourceFirefox.beta_update_url

\* C18: a call of transformManifest leaves the source manifest, nested objects
\* included, as it was, and a second call on the same source returns a result
\* equal to the first.
C18_SourceUntouched ==
    [][program = "manifest" =>
          /\ mfArgs' = mfArgs
          /\ \A i \in 1..Len(mfOut') : mfOut'[i] = mfOut'[1]]_vars

\* Two calls were made for the firefox family on a production source with
\* beta settings: the call cleared beta_id and beta_update_url in its own
\* copy, and the second call still found them in the source.
C18_Witness ==
    /\ program = "manifest"
    /\ Len(mfOut) = 2
    /\ mfArgs.targetBase = "firefox"
    /\ ~mfArgs.isDev
    /\ HasFirefoxSettings
    /\ SourceFirefox.beta_id # <<>>
    /\ SourceFirefox.beta_update_url # <<>>
    /\ GeckoOut[1].beta_id = <<>>
    /\ mfOut[2] = mfOut[1]

(***************************************************************************)
(* The multi-target driver: the paths the targets write and the signing    *)
(* sub-step (SpecDriver).                                                  *)
(***************************************************************************)
\* C19: in a driver run every path written by the build steps of a target lies
\* under that target's own output directory, and no path is written for two
\* different targets.
C19_NoSharedPaths ==
    program = "driver" =>
        /\ \A w \in written : w.path[1] = OutDir(w.target)
        /\ \A v \in written, w \in written : v.path = w.path => v.target = w.target

\* C20: the signing sub-step runs only for firefox and only with the upload
\* flag set; when it fails the task goes on to remove its output directory and
\* the run is not failed by it; a task that is done has removed its directory.
C20_SignFailureSwallowed ==
    [][program = "driver" =>
          \A t \in SUPPORTED_TARGETS :
              /\ taskPc'[t] = "sign" => (t = "firefox" /\ uploadToAmo)
              /\ t \in xpis' => (t = "firefox" /\ uploadToAmo)
              /\ (taskPc[t] = "sign" /\ taskPc'[t] # "sign") =>
                    (taskPc'[t] = "remove" /\ driverPc' = driverPc)
              /\ taskPc'[t] = "done" => t \notin outDirs']_vars

\* The signing of firefox failed (no .xpi), and the run still resolved with
\* firefox zipped and its output directory removed.
C20_Witness ==
    /\ program = "driver"
    /\ uploadToAmo
    /\ driverPc = "resolved"
    /\ "firefox" \notin xpis
    /\ "firefox" \in archives
    /\ "firefox" \notin outDirs

(***************************************************************************)
(* The dev server: the connection set and what a client receives           *)
(* (SpecDev).                                                              *)
(***************************************************************************)
\* The clients whose websocket is open.
OpenSockets == {c \in Clients : sockets[c].open}

\* The changes whose notification client c was sent over its latest websocket.
SentOverSocket(c) ==
    {received[c][i].change : i \in (sockets[c].had + 1)..Len(received[c])}

Endpoints == {"api", "www"}

\* How a fetch can settle: fulfilled with a response, or rejected.
FetchOutcomes == {"200", "404", "500", "rejected"}

\* api.status === "fulfilled"
ProbeFulfilled(outcome) == outcome # "rejected"

\* lines 566-569: Promise.allSettled fulfils whatever its members do.
JoinProbesMutant(probes) ==
    IF \E e \in Endpoints : probes[e] = "rejected" THEN "rejected" ELSE "fulfilled"
JoinProbes(probes) == "fulfilled"

\* lines 569-574: the record the .then callback returns.
DevServersFrom(isWsAccessible, probes) ==
    [IS_DEV_API_ACCESSIBLE |-> ProbeFulfilled(probes["api"]),
     IS_DEV_WWW_ACCESSIBLE |-> ProbeFulfilled(probes["www"]),
     IS_DEV_WS_ACCESSIBLE |-> isWsAccessible = <<TRUE>>]

\* lines 558-562: the record of a non-development call.
NoDevServers ==
    [IS_DEV_API_ACCESSIBLE |-> FALSE, IS_DEV_WWW_ACCESSIBLE |-> FALSE,
     IS_DEV_WS_ACCESSIBLE |-> FALSE]

InitProbe ==
    /\ program = "probe"
    /\ IdleEarly
    /\ IdleStore
    /\ IdleBg
    /\ prArgs \in [isDev : BOOLEAN, isWsAccessible : Opt(BOOLEAN)]
    /\ prOut = <<>>

\* lines 553-569: the call; a non-development call returns a resolved promise,
\* a development call sends the two probes.
ProbeCall ==
    /\ program = "probe"
    /\ prOut = <<>>
    /\ prOut' = IF ~prArgs.isDev
                THEN <<[probes |-> [e \in Endpoints |-> "notSent"],
                        promise |-> "fulfilled", value |-> <<NoDevServers>>]>>
                ELSE <<[probes |-> [e \in Endpoints |-> "pending"],
                        promise |-> "pending", value |-> <<>>]>>
    /\ UNCHANGED <<notProbe, prArgs>>

\* One of the two fetches settles.
FetchSettle(e, outcome) ==
    /\ program = "probe"
    /\ prOut # <<>>
    /\ prOut[1].probes[e] = "pending"
    /\ prOut' = <<[prOut[1] EXCEPT !.probes[e] = outcome]>>
    /\ UNCHANGED <<notProbe, prArgs>>

\* lines 566-575: both fetches have settled and the returned promise settles.
ProbeSettle ==
    /\ program = "probe"
    /\ prOut # <<>>
    /\ prOut[1].promise = "pending"
    /\ \A e \in Endpoints : prOut[1].probes[e] \in FetchOutcomes
    /\ LET status == JoinProbes(prOut[1].probes)
       IN prOut' = <<[prOut[1] EXCEPT
                        !.promise = status,
                        !.value = IF status = "fulfilled"
                                  THEN <<DevServersFrom(prArgs.isWsAccessible, prOut[1].probes)>>
                                  ELSE <<>>]>>
    /\ UNCHANGED <<notProbe, prArgs>>

NextProbe ==
    \/ ProbeCall
    \/ \E e \in Endpoints, outcome \in FetchOutcomes : FetchSettle(e, outcome)
    \/ ProbeSettle

SpecProbe == InitProbe /\ [][NextProbe]_vars

\* C22: getDevServersAvailable never rejects; in development mode the flag of
\* an endpoint is false when its probe failed and true when it succeeded; in
\* non-development mode the three flags are false and no probe is sent.
C22_ProbeNeverRejects ==
    (program = "probe" /\ prOut # <<>>) =>
        LET out == prOut[1]
        IN /\ out.promise # "rejected"
           /\ ~prArgs.isDev =>
                 /\ out.promise = "fulfilled"
                 /\ out.value = <<NoDevServers>>
                 /\ \A e \in Endpoints : out.probes[e] = "notSent"
           /\ (prArgs.isDev /\ out.promise = "fulfilled") =>
                 /\ out.value[1].IS_DEV_API_ACCESSIBLE = (out.probes["api"] # "rejected")
                 /\ out.value[1].IS_DEV_WWW_ACCESSIBLE = (out.probes["www"] # "rejected")
           /\ (prArgs.isDev /\ \A e \in Endpoints : out.probes[e] \in FetchOutcomes) =>
                 out.promise \in {"pending", "fulfilled"}

\* A development call whose API probe was refused and whose website probe was
\* answered resolved to API not accessible, website accessible.
C22_Witness ==
    /\ program = "probe"
    /\ prArgs.isDev
    /\ prOut # <<>>
    /\ prOut[1].probes["api"] = "rejected"
    /\ prOut[1].probes["www"] = "404"
    /\ prOut[1].promise = "fulfilled"
    /\ ~prOut[1].value[1].IS_DEV_API_ACCESSIBLE
    /\ prOut[1].value[1].IS_DEV_WWW_ACCESSIBLE

(***************************************************************************)
(* transformManifest: the version fields of the Chromium family            *)
(* (SpecManifest).                                                         *)
(***************************************************************************)
\* The call was made for the Chromium family and has returned.
ChromiumReturned == Returned /\ mfArgs.targetBase = "chromium"

\* C23 as stated: the Chromium output has the source store_version as its
\* version and neither a store_version nor a version_name.
C23_VersionNameStripped ==
    ChromiumReturned =>
        /\ mfOut[1].version = mfArgs.manifest.store_version
        /\ mfOut[1].store_version = <<>>
        /\ mfOut[1].version_name = <<>>

\* C23 amended: the Chromium output has the source store_version as its
\* version and no store_version; it has a version_name exactly when the source
\* has one, and it is the source's with the first __manifest_version__
\* replaced by the source version.
C23_VersionNameKept ==
    ChromiumReturned =>
        LET src == mfArgs.manifest.version_name
            out == mfOut[1].version_name
        IN /\ mfOut[1].version = mfArgs.manifest.store_version
           /\ mfOut[1].store_version = <<>>
           /\ (out = <<>>) = (src = <<>>)
           /\ src # <<>> =>
                 LET at == {i \in 1..Len(src[1]) : src[1][i] = "__manifest_version__"}
                     first == CHOOSE i \in at : \A j \in at : i <= j
                 IN IF at = {} THEN out = src
                    ELSE out[1] = [src[1] EXCEPT ![first] = mfArgs.manifest.version[1]]

\* A source version_name with the placeholder twice comes out with the first
\* one replaced.
C23_Witness ==
    /\ ChromiumReturned
    /\ mfArgs.manifest.version_name =
          << <<"__manifest_version__", "+", "__manifest_version__">> >>
    /\ mfOut[1].version_name = << <<"2.1.0", "+", "__manifest_version__">> >>
    /\ mfOut[1].version = <<"2.1.0.1">>

(***************************************************************************)
(* writeDNRRules: the security-policy rule (SpecDNR).                      *)
(***************************************************************************)
\* The directives of a policy: the token runs between semicolons, without
\* the blanks; a directive is <<name, source, ...>>.
RECURSIVE Directives(_)
Directives(text) ==
    LET semis == {i \in 1..Len(text) : text[i] = ";"}
        stop == IF semis = {} THEN Len(text) + 1
                ELSE CHOOSE i \in semis : \A j \in semis : i <= j
        head == SelectSeq(SubSeq(text, 1, stop - 1), LAMBDA tok : tok # " ")
    IN IF text = <<>> THEN <<>>
       ELSE IF stop > Len(text) THEN <<head>>
       ELSE <<head>> \o Directives(SubSeq(text, stop + 1, Len(text)))

\* The directive a browser applies for img-src: the first one of that name.
IsImgSrc(dirs, i) ==
    /\ dirs[i] # <<>>
    /\ dirs[i][1] = "img-src"
    /\ \A j \in 1..(i - 1) : dirs[j] = <<>> \/ dirs[j][1] # "img-src"

\* The rule of the emitted array that sets the security-policy header.
CspRule ==
    dnrOut[1][CHOOSE i \in 1..Len(dnrOut[1]) :
                 dnrOut[1][i].header = CONTENT_SECURITY_POLICY_HEADER_NAME]

\* C24: for every fetched policy the security-policy rule sets the header to
\* that policy with the two emoji origins also allowed in its img-src
\* directive, the sources it had kept, and every other directive as fetched.
C24_EmojiOriginsAllowed ==
    (program = "dnr" /\ dnrOut # <<>>) =>
        LET in == Directives(dnrArgs.cspPolicy)
            out == Directives(CspRule.value)
            domains == getDomains(dnrArgs.target, dnrArgs.isDev, dnrArgs.devServers)
        IN /\ CspRule.operation = "set"
           /\ Len(out) = Len(in)
           /\ \A i \in 1..Len(in) :
                 IF IsImgSrc(in, i)
                 THEN /\ out[i][1] = "img-src"
                      /\ Includes(out[i], domains.TWEMOJI_EMOJI_BASE_URL)
                      /\ Includes(out[i], domains.FLUENTUI_EMOJI_BASE_URL)
                      /\ \A k \in 1..Len(in[i]) : Includes(out[i], in[i][k])
                 ELSE out[i] = in[i]

(***************************************************************************)
(* build(): the Apple post-processing step (SpecBuild).                    *)
(***************************************************************************)
\* C25: convertToSafariExtension is run only for a target of the apple base
\* all of whose steps were fulfilled: it is skipped when a step rejected, and
\* never run for a chromium or firefox target.
C25_ConvertOnlyAppleAfterSuccess ==
    program = "build" =>
        \A t \in Built :
            /\ (buildPc[t] = "convert" \/ t \in converted) =>
                  /\ getTargetBaseFromTarget(t) = "apple"
                  /\ EveryFulfilled(stepState[t])
            /\ (buildPc[t] \in Ended /\ Rejected(t) # {}) => t \notin converted
            /\ (buildPc[t] = "Succeeded" /\ getTargetBaseFromTarget(t) # "apple") =>
                  t \notin converted

\* An apple build whose seven steps were fulfilled was wrapped and resolved.
C25_Witness ==
    /\ program = "build"
    /\ \E t \in Built :
          /\ getTargetBaseFromTarget(t) = "apple"
          /\ EveryFulfilled(stepState[t])
          /\ t \in converted
          /\ buildPc[t] = "Succeeded"

(***************************************************************************)
(* The dev server: the steps a change reruns (SpecDev).                    *)
(***************************************************************************)
\* The steps of the rebuilds started for changes under one watched path.
RerunFor(w) == {rebuild[n].steps : n \in {k \in DOMAIN rebuild : rebuild[k].watch = w}}

\* The rebuilds of the five watched paths on which the claim and the code agree.
RerunOthers ==
    /\ RerunFor("scss") \subseteq {{"compileSCSS"}}
    /\ RerunFor("i18n") \subseteq {{"writeI18n", "buildJS"}}
    /\ RerunFor("html") \subseteq {{"writeHTMLFiles"}}
    /\ RerunFor("manifest") \subseteq {{"writeManifest"}}
    /\ RerunFor("img") \subseteq {{"copyAssets"}}

\* C26 as stated: a change reruns the step set of its watched path and no
\* other step; for script sources that is the script compilation together
\* with the locale writing.
C26_ScriptsRerunLocales ==
    program = "dev" =>
        /\ RerunOthers
        /\ RerunFor("ts") \subseteq {{"buildJS", "writeI18n"}}

\* C26 amended: a change reruns the step set of its watched path and no other
\* step; for script sources that is the script compilation alone.
C26_ScriptsRerunAlone ==
    program = "dev" =>
        /\ RerunOthers
        /\ RerunFor("ts") \subseteq {{"buildJS"}}

\* A change under ./src/ts/ and one under ./src/i18n/ have both been rebuilt.
C26_Witness ==
    /\ program = "dev"
    /\ Len(rebuild) = 2
    /\ rebuild[1].watch = "ts"
    /\ rebuild[1].steps = {"buildJS"}
    /\ rebuild[2].watch = "i18n"
    /\ rebuild[1].state = "fulfilled"
    /\ rebuild[2].state = "fulfilled"

(***************************************************************************)
(* The dev server: overlapping rebuilds of one watched path (SpecDev).     *)
(***************************************************************************)
\* Two rebuilds of the same watched path are running at once.
TwoInFlight(n, m) ==
    /\ n # m
    /\ rebuild[n].watch = rebuild[m].watch
    /\ rebuild[n].state = "running"
    /\ rebuild[m].state = "running"

\* Two compileSCSS runs are in flight at once: the second change arrived
\* before the first rebuild settled, and neither was held back or dropped.
C27_Overlap ==
    /\ program = "dev"
    /\ Len(rebuild) = 2
    /\ rebuild[1].watch = "scss"
    /\ TwoInFlight(1, 2)
    /\ connections # {}

\* C27: rebuilds are neither serialized nor coalesced, and when two rebuilds
\* of the same watched path are in flight at once, each of them sends its own
\* notification to every connected client when it settles (stated for the
\* watchers that pass a type).
C27_EachOverlappingRebuildNotifies ==
    [][\A n \in DOMAIN rebuild :
          (/\ \E m \in DOMAIN rebuild : TwoInFlight(n, m)
           /\ rebuild'[n].state \in Settled
           /\ Watchers[rebuild[n].watch].type # <<>>) =>
              \A c \in connections :
                  /\ Len(received'[c]) = Len(received[c]) + 1
                  /\ received'[c][Len(received'[c])].change = n]_vars

(***************************************************************************)
(* The ratings store of the backend (services/rbdb-backend/src/index.js):  *)
(* RatingsStore after bootstrap() has awaited init().                      *)
(***************************************************************************)
\* The user ids of the requests, the universe being the same in all of them.
Users == {"1", "2"}
\* The rating values of the requests; 0 fails the check of lines 95-98.
RatingInputs == {0, 5}
\* The number of upsert and remove calls of one run.
MaxOps == 3

\* this.data of one universe: per user, no entry or the rating stored.
NoRatings == [u \in Users |-> <<>>]

\* lines 95-96: the rating is an integer between 1 and 5.
ValidRating(rating) == rating >= 1 /\ rating <= 5

\* lines 54-92: the summary of the universe (the rating count and the entry of
\* the user asked for; remove passes no user).
getSummary(data, userId) ==
    [totalRatings |-> Cardinality({u \in Users : data[u] # <<>>}),
     userRating   |-> IF userId # <<>> THEN data[userId[1]] ELSE <<>>]

\* line 43: the state of this.writeQueue that the k-th schedulePersist chains
\* its persist on; the constructor starts the queue with Promise.resolve().
ChainedOnMutant(queue, k) == "fulfilled"
ChainedOn(queue, k) == IF k = 1 THEN "fulfilled" ELSE queue[k - 1].state

\* line 43: then() is given a fulfilment handler only, so a rejected queue
\* skips the handler and passes its rejection on.
ThenSkipsHandlerMutant(state) == FALSE
ThenSkipsHandler(state) == state = "rejected"

\* line 43: the promise schedulePersist stores in writeQueue and returns, with
\* the state writeQueue had when it was chained on.
QueuedPersist(queue) ==
    [state |-> "pending", called |-> FALSE, phase |-> "none", error |-> 0,
     payload |-> <<>>, was |-> ChainedOn(queue, Len(queue) + 1)]

InitStore ==
    /\ program = "store"
    /\ IdleEarly
    /\ IdleProbe
    /\ IdleBg
    /\ stData = [NoRatings EXCEPT !["1"] = <<1>>]
    /\ stFile = <<stData>>
    /\ stQueue = <<>>
    /\ stOps = <<>>

\* lines 94-107 up to the await: upsert throws on a bad rating, otherwise it
\* stores the rating and schedules a persist.
Upsert(userId, rating) ==
    /\ program = "store"
    /\ Len(stOps) < MaxOps
    /\ IF ~ValidRating(rating)
       THEN /\ stOps' = Append(stOps, [kind |-> "upsert", user |-> userId,
                                       rating |-> rating, promise |-> 0, state |-> "threw",
                                       error |-> -1, summary |-> <<>>])
            /\ UNCHANGED <<stData, stQueue>>
       ELSE /\ stData' = [stData EXCEPT ![userId] = <<rating>>]
            /\ stQueue' = Append(stQueue, QueuedPersist(stQueue))
            /\ stOps' = Append(stOps, [kind |-> "upsert", user |-> userId,
                                       rating |-> rating, promise |-> Len(stQueue) + 1,
                                       state |-> "awaiting",
                                       error |-> 0, summary |-> <<>>])
    /\ UNCHANGED <<notStore, stFile>>

\* lines 109-122 up to the await: remove returns at once when the user has no
\* rating, otherwise it deletes the rating and schedules a persist.
Remove(userId) ==
    /\ program = "store"
    /\ Len(stOps) < MaxOps
    /\ IF stData[userId] = <<>>
       THEN /\ stOps' = Append(stOps, [kind |-> "remove", user |-> userId,
                                       rating |-> 0, promise |-> 0, state |-> "returned",
                                       error |-> 0,
                                       summary |-> <<getSummary(stData, <<>>)>>])
            /\ UNCHANGED <<stData, stQueue>>
       ELSE /\ stData' = [stData EXCEPT ![userId] = <<>>]
            /\ stQueue' = Append(stQueue, QueuedPersist(stQueue))
            /\ stOps' = Append(stOps, [kind |-> "remove", user |-> userId,
                                       rating |-> 0, promise |-> Len(stQueue) + 1,
                                       state |-> "awaiting",
                                       error |-> 0, summary |-> <<>>])
    /\ UNCHANGED <<notStore, stFile>>

\* line 43, the fulfilment handler runs: persist() is called and awaits mkdir.
PersistStart(k) ==
    /\ program = "store"
    /\ stQueue[k].state = "pending"
    /\ ~stQueue[k].called
    /\ ChainedOn(stQueue, k) \in Settled
    /\ ~ThenSkipsHandler(ChainedOn(stQueue, k))
    /\ stQueue' = [stQueue EXCEPT ![k].called = TRUE, ![k].phase = "mkdir"]
    /\ UNCHANGED <<notStore, stData, stFile, stOps>>

\* line 43, the queue was rejected: the handler is skipped and the new promise
\* rejects with the same error.
PersistSkipped(k) ==
    /\ program = "store"
    /\ stQueue[k].state = "pending"
    /\ ~stQueue[k].called
    /\ k > 1
    /\ ChainedOn(stQueue, k) \in Settled
    /\ ThenSkipsHandler(ChainedOn(stQueue, k))
    /\ stQueue' = [stQueue EXCEPT ![k].state = "rejected",
                                  ![k].error = stQueue[k - 1].error]
    /\ UNCHANGED <<notStore, stData, stFile, stOps>>

\* lines 37-38: mkdir settles; on success the data as it is now is serialized
\* and the write begins, on failure persist() rejects.
MkdirSettle(k, ok) ==
    /\ program = "store"
    /\ stQueue[k].phase = "mkdir"
    /\ stQueue' = IF ok
                  THEN [stQueue EXCEPT ![k].phase = "writeFile",
                                       ![k].payload = <<stData>>]
                  ELSE [stQueue EXCEPT ![k].phase = "none",
                                       ![k].state = "rejected", ![k].error = k]
    /\ UNCHANGED <<notStore, stData, stFile, stOps>>

\* line 39: writeFile settles; a failed write leaves the file as it was or
\* cut short.
WriteFileSettle(k, ok, cut) ==
    /\ program = "store"
    /\ stQueue[k].phase = "writeFile"
    /\ ok => ~cut
    /\ stQueue' = IF ok
                  THEN [stQueue EXCEPT ![k].phase = "none", ![k].state = "fulfilled"]
                  ELSE [stQueue EXCEPT ![k].phase = "none",
                                       ![k].state = "rejected", ![k].error = k]
    /\ stFile' = IF ok THEN stQueue[k].payload
                 ELSE IF cut THEN <<>> ELSE stFile
    /\ UNCHANGED <<notStore, stData, stOps>>

\* lines 105-106 and 120-121: the await ends; the call returns the summary of
\* the data as it is now, or throws the error of the queue.
OpResume(i) ==
    /\ program = "store"
    /\ stOps[i].state = "awaiting"
    /\ stQueue[stOps[i].promise].state \in Settled
    /\ stOps' = IF stQueue[stOps[i].promise].state = "fulfilled"
                THEN [stOps EXCEPT ![i].state = "returned",
                                   ![i].summary =
                                       <<getSummary(stData,
                                                    IF stOps[i].kind = "upsert"
                                                    THEN <<stOps[i].user>> ELSE <<>>)>>]
                ELSE [stOps EXCEPT ![i].state = "threw",
                                   ![i].error = stQueue[stOps[i].promise].error]
    /\ UNCHANGED <<notStore, stData, stFile, stQueue>>

NextStore ==
    \/ \E u \in Users, r \in RatingInputs : Upsert(u, r)
    \/ \E u \in Users : Remove(u)
    \/ \E k \in DOMAIN stQueue : PersistStart(k)
    \/ \E k \in DOMAIN stQueue : PersistSkipped(k)
    \/ \E k \in DOMAIN stQueue, ok \in BOOLEAN : MkdirSettle(k, ok)
    \/ \E k \in DOMAIN stQueue, ok \in BOOLEAN, cut \in BOOLEAN : WriteFileSettle(k, ok, cut)
    \/ \E i \in DOMAIN stOps : OpResume(i)

SpecStore == InitStore /\ [][NextStore]_vars

\* persist() number k has been called and has not finished.
InProgress(k) == stQueue[k].phase # "none"

\* C28: over any interleaving of upsert and remove calls, at most one persist()
\* is in progress at a time, persists run in the order they were scheduled
\* (one is called only after every persist scheduled before it has finished),
\* and a call that scheduled a persist returns its summary only after that
\* persist has finished.
C28_PersistsSerialized ==
    program = "store" =>
        /\ \A j, k \in DOMAIN stQueue : InProgress(j) /\ InProgress(k) => j = k
        /\ \A k \in DOMAIN stQueue :
               stQueue[k].called =>
                   \A j \in 1..(k - 1) : stQueue[j].state = "fulfilled"
        /\ \A i \in DOMAIN stOps :
               stOps[i].state = "returned" /\ stOps[i].promise # 0 =>
                   /\ stQueue[stOps[i].promise].state = "fulfilled"
                   /\ stQueue[stOps[i].promise].called

\* Three calls were made before the first persist was called; the second
\* persist is being written while the third waits, and the first call has
\* returned its summary.
C28_Witness ==
    /\ program = "store"
    /\ Len(stQueue) = 3
    /\ stQueue[1].state = "fulfilled"
    /\ stQueue[2].phase = "writeFile"
    /\ stQueue[3].state = "pending"
    /\ ~stQueue[3].called
    /\ stOps[1].state = "returned"
    /\ stOps[3].kind = "remove"

\* The calls of a user that changed the data.
ChangesOf(u) == {i \in DOMAIN stOps : stOps[i].user = u /\ stOps[i].promise # 0}

\* The in-memory data holds the change of every call that scheduled a persist:
\* each user's entry is what the user's last such call stored or deleted.
DataHoldsChanges ==
    \A u \in Users :
        ChangesOf(u) # {} =>
            LET last == CHOOSE i \in ChangesOf(u) : \A j \in ChangesOf(u) : j <= i
            IN stData[u] = IF stOps[last].kind = "upsert"
                           THEN <<stOps[last].rating>> ELSE <<>>

\* The persist() calls that rejected themselves (not by a passed-on rejection).
FailedPersists == {k \in DOMAIN stQueue : stQueue[k].state = "rejected" /\ stQueue[k].called}

\* C29: once one persist() has rejected, writeQueue stays rejected: every
\* schedulePersist after it (and every one queued behind it) never calls
\* persist() and rejects with that first error, so the upsert or remove that
\* awaits it throws that error and never returns a summary, while the
\* in-memory data holds the change of each of those calls.
C29_QueueStaysRejected ==
    program = "store" =>
        \A f \in FailedPersists :
            /\ \A k \in DOMAIN stQueue :
                   k > f =>
                       /\ ~stQueue[k].called
                       /\ stQueue[k].state \in {"pending", "rejected"}
                       /\ stQueue[k].state = "rejected" => stQueue[k].error = f
            /\ \A i \in DOMAIN stOps :
                   stOps[i].promise > f =>
                       /\ stOps[i].state \in {"awaiting", "threw"}
                       /\ stOps[i].state = "threw" => stOps[i].error = f
            /\ DataHoldsChanges

\* The first persist rejected; an upsert made after that has thrown the first
\* error with no second persist() call, the data holds its rating and the
\* file does not.
C29_Witness ==
    /\ program = "store"
    /\ FailedPersists = {1}
    /\ Len(stQueue) = 2
    /\ stQueue[2].was = "rejected"
    /\ ~stQueue[2].called
    /\ stOps[2].kind = "upsert"
    /\ stOps[2].state = "threw"
    /\ stOps[2].error = 1
    /\ stData[stOps[2].user] = <<stOps[2].rating>>
    /\ stFile # <<stData>>

(***************************************************************************)
(* The message listener of the background script (src/background.ts).      *)
(***************************************************************************)
\* The messages the runtime delivers: with or without a type, with or without
\* a payload, the payload with or without a method in its init.
MessageTypes == {"rbdb:proxyRequest", "rbdb:other"}
Messages == [type : Opt(MessageTypes), payload : Opt([method : Opt({"POST"})])]
\* The number of messages of one run.
MaxMessages == 2
\* The HTTP statuses of the responses fetch fulfils with.
Statuses == {200, 404, 500}

\* line 49: the message is a proxy request.
IsProxyRequestMutant(message) == message.type # <<>>
IsProxyRequest(message) == message.type = <<"rbdb:proxyRequest">>

\* line 56: init.method ?? "GET".
MethodOf(payload) == IF payload.method = <<>> THEN "GET" ELSE payload.method[1]

\* Response.ok: the status is in the range 200-299.
ResponseOk(status) == status >= 200 /\ status <= 299

\* lines 68-74: the payload sent after fetch and text() succeeded.
Fetched(status) ==
    [ok |-> ResponseOk(status), status |-> status, statusText |-> "fetched",
     body |-> TRUE]

\* lines 77-82: the payload sent from the catch block.
NetworkError ==
    [ok |-> FALSE, status |-> 0, statusText |-> "NETWORK_ERROR", body |-> FALSE]

InitBg ==
    /\ program = "bg"
    /\ IdleEarly
    /\ IdleProbe
    /\ IdleStore
    /\ bgMsg = <<>>
    /\ bgPc = <<>>
    /\ bgOut = <<>>

\* lines 47-86: the listener is called with a message and returns; for a proxy
\* request the async function has run up to its first await, or, when reading
\* payload.payload.init throws, through its catch block.
OnMessage(message) ==
    /\ program = "bg"
    /\ Len(bgMsg) < MaxMessages
    /\ bgMsg' = Append(bgMsg, message)
    /\ IF ~IsProxyRequest(message)
       THEN /\ bgPc' = Append(bgPc, "ended")
            /\ bgOut' = Append(bgOut, [returned |-> FALSE, request |-> <<>>,
                                       status |-> 0, sent |-> <<>>])
       ELSE IF message.payload = <<>>
       THEN /\ bgPc' = Append(bgPc, "ended")
            /\ bgOut' = Append(bgOut, [returned |-> TRUE, request |-> <<>>,
                                       status |-> 0, sent |-> <<NetworkError>>])
       ELSE /\ bgPc' = Append(bgPc, "fetch")
            /\ bgOut' = Append(bgOut, [returned |-> TRUE,
                                       request |-> <<MethodOf(message.payload[1])>>,
                                       status |-> 0, sent |-> <<>>])
    /\ UNCHANGED notBg

\* line 62: fetch fulfils with a response of any status.
FetchFulfil(i, status) ==
    /\ program = "bg"
    /\ bgPc[i] = "fetch"
    /\ bgPc' = [bgPc EXCEPT ![i] = "text"]
    /\ bgOut' = [bgOut EXCEPT ![i].status = status]
    /\ UNCHANGED <<notBg, bgMsg>>

\* lines 62 and 75-83: fetch rejects and the catch block answers.
FetchReject(i) ==
    /\ program = "bg"
    /\ bgPc[i] = "fetch"
    /\ bgPc' = [bgPc EXCEPT ![i] = "ended"]
    /\ bgOut' = [bgOut EXCEPT ![i].sent = Append(@, NetworkError)]
    /\ UNCHANGED <<notBg, bgMsg>>

\* lines 63-83: response.text() settles; the body is sent with the status, or
\* the catch block answers when reading the body failed.
TextSettle(i, ok) ==
    /\ program = "bg"
    /\ bgPc[i] = "text"
    /\ bgPc' = [bgPc EXCEPT ![i] = "ended"]
    /\ bgOut' = [bgOut EXCEPT ![i].sent =
                     Append(@, IF ok THEN Fetched(bgOut[i].status) ELSE NetworkError)]
    /\ UNCHANGED <<notBg, bgMsg>>

NextBg ==
    \/ \E message \in Messages : OnMessage(message)
    \/ \E i \in DOMAIN bgPc, status \in Statuses : FetchFulfil(i, status)
    \/ \E i \in DOMAIN bgPc : FetchReject(i)
    \/ \E i \in DOMAIN bgPc, ok \in BOOLEAN : TextSettle(i, ok)

SpecBg == InitBg /\ [][NextBg]_vars

\* The answers a proxy request may get: the fetched status and body, or the
\* network error.
Answers == {Fetched(status) : status \in Statuses} \cup {NetworkError}

\* C30: for a message of type rbdb:proxyRequest the listener returns true and
\* sendResponse is called exactly once by the time the async function has
\* ended and never more than once before (with the fetched status and body,
\* or with ok=false, status 0 and NETWORK_ERROR); for any other message the
\* listener returns false and sendResponse is never called.
C30_ProxyAnsweredOnce ==
    program = "bg" =>
        \A i \in DOMAIN bgMsg :
            IF bgMsg[i].type = <<"rbdb:proxyRequest">>
            THEN /\ bgOut[i].returned
                 /\ Len(bgOut[i].sent) <= 1
                 /\ bgPc[i] = "ended" <=> Len(bgOut[i].sent) = 1
                 /\ \A n \in DOMAIN bgOut[i].sent : bgOut[i].sent[n] \in Answers
                 /\ bgPc[i] = "text" => bgOut[i].status \in Statuses
            ELSE /\ ~bgOut[i].returned
                 /\ bgOut[i].sent = <<>>
                 /\ bgPc[i] = "ended"

\* A proxy request was answered with a fetched 404, another message was
\* ignored.
C30_Witness ==
    /\ program = "bg"
    /\ Len(bgMsg) = 2
    /\ bgMsg[1].type = <<"rbdb:proxyRequest">>
    /\ bgOut[1].sent = <<Fetched(404)>>
    /\ bgOut[1].returned
    /\ bgMsg[2].type = <<"rbdb:other">>
    /\ ~bgOut[2].returned
    /\ bgOut[2].sent = <<>>

=============================================================================
